---- MODULE Spec2Model ----
(***************************************************************************)
(* A model of the workout-program interpreter of the helf tracker: the     *)
(* Liftoscript parser (backend/app/services/liftoscript_service.py) and    *)
(* the HTTP handler that stores what it parses                             *)
(* (backend/app/api/upcoming.py, generate_liftoscript_workouts).           *)
(*                                                                         *)
(* A script is modelled as the list of its lines, each line as the tokens  *)
(* the parser's regular expressions find in it:                            *)
(*   blank    a line that is empty after strip()                           *)
(*   header   a line that starts with "#"            (## Day 1)            *)
(*   comment  a line that starts with "//", with the declaration it spells *)
(*            (// <Exercise> 1RM: <N>lb, // <Exercise> SW: <N>lb) if any   *)
(*   text     a line with no "/"                                           *)
(*   exercise <name> / <slash part> / <slash part> ..., every slash part a *)
(*            list of comma parts, every comma part the set token NxM,     *)
(*            weight token and rest token that the patterns find in it.    *)
(* Weights are kept in tenths (val10) so that 2.5kg is a token; rounding   *)
(* is Python's round(): nearest integer, ties to even.  Of the comment     *)
(* field only the AMRAP and Rest parts are modelled (RPE, equipment and    *)
(* the quick-add and log-weight markers only add text to the comment).     *)
(***************************************************************************)
EXTENDS Integers, Sequences, FiniteSets, TLC

VARIABLES
    script,       \* request.script, as its list of lines
    num_cycles,   \* request.num_cycles
    upcoming,     \* the rows of the upcoming_workouts table, in id order
    next_id,      \* the next primary key of that table
    session_num,  \* LiftoscriptParser.session_num of the request's parser
    parsed,       \* what parser.parse returned to the handler, or that it raised
    response,     \* the HTTP response of the request
    pc,           \* "request": received, "done": answered
    workouts,     \* the rows of the workouts table (the logged history), in id order
    fp_above,     \* binary64: the estimator inputs whose value lies above a decimal tie
    estimate,     \* a call of calculate_estimated_1rm: its arguments and its outcome
    wendler,      \* the last WendlerService.generate_and_save call and what it built
    log,          \* what the calls so far returned, oldest first
    projection,   \* a call of ProgressionService.get_progression_data and its result
    requests,     \* the liftoscript requests being handled side by side
    parsers,      \* the LiftoscriptParser objects those requests constructed
    average       \* a call of calculate_moving_average: its arguments and its outcome

\* the liftoscript request and the table it writes
lvars == <<script, num_cycles, upcoming, next_id, session_num, parsed, response, pc>>
\* the other services
svars ==
    <<workouts, fp_above, estimate, wendler, log, projection, requests, parsers, average>>
vars == <<lvars, svars>>

\* ------------------------------------------------------------------ bounds
MaxLines == 3
MaxCycles == 2

\* ------------------------------------------------------------- Option type
None == <<>>
Some(x) == <<x>>
IsSome(o) == o # <<>>
Get(o) == o[1]

\* the greatest and the least element of a set of numbers
SetMax(S) == CHOOSE x \in S : \A y \in S : y <= x
SetMin(S) == CHOOSE x \in S : \A y \in S : x <= y

\* ------------------------------------------------------- program constants
DEFAULT_SQUAT_MAX == 225
DEFAULT_BENCH_MAX == 185
DEFAULT_DEADLIFT_MAX == 275
\* 2.20462 = KG_TO_LBS_NUM / KG_TO_LBS_DEN
KG_TO_LBS_NUM == 220462
KG_TO_LBS_DEN == 100000

\* Python's round(num / den) for num >= 0, den > 0: ties go to the even integer.
PyRound(num, den) ==
    LET q == num \div den
        r == num % den
    IN  IF 2 * r < den THEN q
        ELSE IF 2 * r > den THEN q + 1
        ELSE IF q % 2 = 0 THEN q ELSE q + 1

\* --------------------------------------------------------------- the tokens
\* SET_PATTERN (\d+)(\+)?x(\d+)(\+)?(?:-(\d+))?
\* (the quick-add "+" after the set count only adds text to the comment)
SetTok(n, m, amrap, maxr) ==
    [num_sets |-> n, reps |-> m, amrap |-> amrap, max_reps |-> maxr]
\* WEIGHT_PATTERN (\d+(?:\.\d+)?)(lb|kg|%)(\+)? ; lp: the token stands inside
\* "progress: lp(...)", which no pattern of the parser looks at.
WeightTok(v10, type, lp) == [val10 |-> v10, type |-> type, lp |-> lp]
\* one comma part of a slash part: what SET_PATTERN, WEIGHT_PATTERN and
\* REST_PATTERN find in it (None: no match)
Part(set, weight, rest) == [set |-> set, weight |-> weight, rest |-> rest]

Blank == [kind |-> "blank"]
Header == [kind |-> "header"]
Text == [kind |-> "text"]
Comment(decl, name, v10, unit) ==
    [kind |-> "comment", decl |-> decl, name |-> name, val10 |-> v10, unit |-> unit]
Exercise(name, tail) == [kind |-> "exercise", name |-> name, tail |-> tail]

\* ------------------------------------------------------------ the exercises
SQUAT == "Barbell Squat"
BENCH == "Flat Barbell Bench Press"
DEADLIFT == "Deadlift"
UNKNOWN == "Unknown Exercise"

\* "<word>" in exercise_name.lower()
NameHas(name, word) ==
    CASE word = "squat" -> name = SQUAT
      [] word = "bench" -> name = BENCH
      [] word = "press" -> name = BENCH
      [] word = "deadlift" -> name = DEADLIFT
      [] OTHER -> FALSE

\* the exercises table: ExerciseRepository.get_by_name(name), None on a miss
ExerciseTable(name) ==
    CASE name = SQUAT -> Some([name |-> SQUAT, category |-> "Legs"])
      [] name = BENCH -> Some([name |-> BENCH, category |-> "Push"])
      [] name = DEADLIFT -> Some([name |-> DEADLIFT, category |-> "Pull"])
      [] OTHER -> None

\* ------------------------------------------------- LiftoscriptParser helpers
\* REST_PATTERN.search / WEIGHT_PATTERN.search / SET_PATTERN.search over a whole
\* slash part: the leftmost match, i.e. the match of its first comma part that has one
RECURSIVE FirstOf(_, _, _)
FirstOf(slash, i, field) ==
    IF i > Len(slash) THEN None
    ELSE IF field = "rest" /\ IsSome(slash[i].rest) THEN slash[i].rest
    ELSE IF field = "weight" /\ IsSome(slash[i].weight) THEN slash[i].weight
    ELSE IF field = "set" /\ IsSome(slash[i].set) THEN slash[i].set
    ELSE FirstOf(slash, i + 1, field)

_convert_kg_to_lbs(kg_num, kg_den) ==
    [num |-> kg_num * KG_TO_LBS_NUM, den |-> kg_den * KG_TO_LBS_DEN]

_get_max_for_exercise(exercise_name, mx) ==
    IF NameHas(exercise_name, "squat") THEN mx.squat
    ELSE IF NameHas(exercise_name, "bench") \/ NameHas(exercise_name, "press") THEN mx.bench
    ELSE IF NameHas(exercise_name, "deadlift") THEN mx.deadlift
    ELSE mx.bench

\* the three branches that turn a weight token into pounds
ResolveWeight(tok, exercise_name, mx) ==
    IF tok.type = "%"
    THEN PyRound(_get_max_for_exercise(exercise_name, mx) * tok.val10, 1000)
    ELSE IF tok.type = "kg"
    THEN LET lbs == _convert_kg_to_lbs(tok.val10, 10) IN PyRound(lbs.num, lbs.den)
    ELSE PyRound(tok.val10, 10)

\* `not global_weight`: None and 0 are both falsy
Falsy(weight) == weight = None \/ Get(weight) = 0

\* the loop over global_modifiers: g = [rest, weight]
RECURSIVE GlobalModifiers(_, _, _, _, _)
GlobalModifiers(mods, i, exercise_name, mx, g) ==
    IF i > Len(mods) THEN g
    ELSE LET rest_match == FirstOf(mods[i], 1, "rest")
             weight_match == FirstOf(mods[i], 1, "weight")
         IN  IF IsSome(rest_match) /\ ~IsSome(g.rest)
             THEN GlobalModifiers(mods, i + 1, exercise_name, mx,
                                  [g EXCEPT !.rest = rest_match])
             ELSE IF IsSome(weight_match) /\ Falsy(g.weight)
             THEN GlobalModifiers(mods, i + 1, exercise_name, mx,
                      [g EXCEPT !.weight =
                          Some(ResolveWeight(Get(weight_match), exercise_name, mx))])
             ELSE GlobalModifiers(mods, i + 1, exercise_name, mx, g)

\* reps_str of a set token: "M+", "M-K" or "M", as its pieces
RepsStr(set) ==
    IF set.amrap THEN [digits |-> set.reps, mark |-> "+", high |-> None]
    ELSE IF IsSome(set.max_reps) THEN [digits |-> set.reps, mark |-> "-", high |-> set.max_reps]
    ELSE [digits |-> set.reps, mark |-> "", high |-> None]

\* one comma part of the set spec: the dict appended to results, or nothing
\* (part: the position of the comma part in the set spec, kept to tell which
\* token an entry came from; the code does not store it)
SetDefinition(part, i, exercise_name, mx, g, rest) ==
    IF ~IsSome(part.set) THEN <<>>
    ELSE <<[num_sets |-> Get(part.set).num_sets,
            reps |-> RepsStr(Get(part.set)),
            weight |-> IF IsSome(part.weight)
                       THEN Some(ResolveWeight(Get(part.weight), exercise_name, mx))
                       ELSE g.weight,
            weight_unit |-> "lbs",
            rest |-> rest,
            part |-> i]>>

RECURSIVE SetDefinitions(_, _, _, _, _, _)
SetDefinitions(set_spec, i, exercise_name, mx, g, rest) ==
    IF i > Len(set_spec) THEN <<>>
    ELSE SetDefinition(set_spec[i], i, exercise_name, mx, g, rest)
         \o SetDefinitions(set_spec, i + 1, exercise_name, mx, g, rest)

\* a comma part without a weight taking the first weight of the set spec
_parse_set_spec_WeightLeaks(set_spec, exercise_name, mx, global_modifiers) ==
    LET g == GlobalModifiers(global_modifiers, 1, exercise_name, mx,
                             [rest |-> None, weight |-> None])
        rest_match == FirstOf(set_spec, 1, "rest")
        rest == IF IsSome(rest_match) THEN rest_match ELSE g.rest
        first == FirstOf(set_spec, 1, "weight")
    IN  SetDefinitions(set_spec, 1, exercise_name, mx,
                       IF Falsy(g.weight) /\ IsSome(first)
                       THEN [g EXCEPT !.weight = Some(ResolveWeight(Get(first),
                                                                    exercise_name, mx))]
                       ELSE g,
                       rest)

_parse_set_spec(set_spec, exercise_name, mx, global_modifiers) ==
    LET g == GlobalModifiers(global_modifiers, 1, exercise_name, mx,
                             [rest |-> None, weight |-> None])
        rest_match == FirstOf(set_spec, 1, "rest")
        rest == IF IsSome(rest_match) THEN rest_match ELSE g.rest
    IN  SetDefinitions(set_spec, 1, exercise_name, mx, g, rest)

\* ------------------------------------------------------ _parse_single_cycle
\* the loop over parts[1:]: the first non-empty slash part in which SET_PATTERN
\* matches is the set spec, the other non-empty ones are global modifiers
SetSpecIndex(tail) ==
    LET I == {i \in 1..Len(tail) : IsSome(FirstOf(tail[i], 1, "set"))}
    IN  IF I = {} THEN 0 ELSE CHOOSE i \in I : \A j \in I : i <= j

SetSpecOf(tail) == IF SetSpecIndex(tail) = 0 THEN <<>> ELSE tail[SetSpecIndex(tail)]

GlobalModifiersOf(tail) ==
    SelectSeq([i \in 1..Len(tail) |->
                  IF i = SetSpecIndex(tail) THEN <<>> ELSE tail[i]],
              LAMBDA p : p # <<>>)

\* reps_value and is_amrap from reps_str
RepsValue(reps_str) == Some(reps_str.digits)
IsAmrap(reps_str) == reps_str.mark = "+"

\* comment_parts joined, None when there is none
CommentOf(set_def) ==
    LET comment_parts ==
            (IF IsAmrap(set_def.reps) THEN <<[text |-> "AMRAP", arg |-> ""]>> ELSE <<>>)
            \o (IF IsSome(set_def.rest)
                THEN <<[text |-> "Rest", arg |-> Get(set_def.rest)]>> ELSE <<>>)
    IN  IF comment_parts = <<>> THEN None ELSE Some(comment_parts)

\* the UpcomingWorkoutCreate of one set (line, cycle and part tell where the
\* entry came from; the code does not store them)
WorkoutOf(set_def, session, exercise_name, category, line, cycle) ==
    [session |-> session,
     exercise |-> exercise_name,
     category |-> category,
     weight |-> set_def.weight,
     weight_unit |-> set_def.weight_unit,
     reps |-> RepsValue(set_def.reps),
     comment |-> CommentOf(set_def),
     line |-> line, cycle |-> cycle, part |-> set_def.part]

\* the loop running one time too few
SetEntries_OneShort(set_def, session, exercise_name, category, line, cycle) ==
    [k \in 1..(set_def.num_sets - 1) |->
        WorkoutOf(set_def, session, exercise_name, category, line, cycle)]

\* for _ in range(set_def["num_sets"]): one entry per set
SetEntries(set_def, session, exercise_name, category, line, cycle) ==
    [k \in 1..set_def.num_sets |->
        WorkoutOf(set_def, session, exercise_name, category, line, cycle)]

RECURSIVE ExpandDefinitions(_, _, _, _, _, _, _)
ExpandDefinitions(defs, i, session, exercise_name, category, line, cycle) ==
    IF i > Len(defs) THEN <<>>
    ELSE SetEntries(defs[i], session, exercise_name, category, line, cycle)
         \o ExpandDefinitions(defs, i + 1, session, exercise_name, category, line, cycle)

\* exercise_categories.get(exercise_name, "Other")
CategoryOf(exercise_categories, exercise_name) ==
    IF exercise_name \in DOMAIN exercise_categories
    THEN exercise_categories[exercise_name] ELSE "Other"

\* one iteration of the loop over the lines: st = [workouts, session_num, in_session]
ParseLine(l, i, st, mx, exercise_categories, cycle) ==
    IF l.kind \in {"blank", "header", "comment"}
    THEN IF l.kind = "blank" /\ st.in_session
         THEN [st EXCEPT !.session_num = @ + 1, !.in_session = FALSE]
         ELSE st
    ELSE IF l.kind = "exercise"
    THEN LET defs == _parse_set_spec(SetSpecOf(l.tail), l.name, mx,
                                     GlobalModifiersOf(l.tail))
         IN  [st EXCEPT !.in_session = TRUE,
                        !.workouts = @ \o ExpandDefinitions(defs, 1, st.session_num,
                                l.name, CategoryOf(exercise_categories, l.name), i, cycle)]
    ELSE st

RECURSIVE ParseLines(_, _, _, _, _, _)
ParseLines(lines, i, st, mx, exercise_categories, cycle) ==
    IF i > Len(lines) THEN st
    ELSE ParseLines(lines, i + 1,
                    ParseLine(lines[i], i, st, mx, exercise_categories, cycle),
                    mx, exercise_categories, cycle)

\* script.strip().split("\n"): no blank line before the first or after the last
\* line that is not blank; an all-blank script is the one line ""
RECURSIVE StripLines(_)
StripLines(s) ==
    IF s = <<>> THEN <<Blank>>
    ELSE IF Head(s).kind = "blank" THEN StripLines(Tail(s))
    ELSE IF s[Len(s)].kind = "blank" THEN StripLines(SubSeq(s, 1, Len(s) - 1))
    ELSE s

\* returns [workouts, session_num]: the cycle's entries and self.session_num after it
_parse_single_cycle(s, session, mx, exercise_categories, cycle) ==
    LET st == ParseLines(StripLines(s), 1,
                         [workouts |-> <<>>, session_num |-> session, in_session |-> FALSE],
                         mx, exercise_categories, cycle)
    IN  [workouts |-> st.workouts,
         session_num |-> IF st.in_session THEN st.session_num + 1 ELSE st.session_num]

\* ------------------------------------------------------ _validate_exercises
\* the names of the lines that hold a "/" and are no comment, header or blank
ExerciseNames(s) ==
    {StripLines(s)[i].name : i \in {j \in 1..Len(StripLines(s)) :
                                        StripLines(s)[j].kind = "exercise"}}

_validate_exercises(s) ==
    LET exercise_names == ExerciseNames(s)
        unknown_exercises == {n \in exercise_names : ExerciseTable(n) = None}
    IN  [unknown_exercises |-> unknown_exercises,
         exercise_categories |->
             [n \in exercise_names \ unknown_exercises |-> Get(ExerciseTable(n)).category]]

\* ---------------------------------------------------------------------- parse
RECURSIVE ParseCycles(_, _, _, _, _, _)
ParseCycles(s, cycle, n, acc, mx, exercise_categories) ==
    IF cycle >= n THEN acc
    ELSE LET c == _parse_single_cycle(s, acc.session_num, mx, exercise_categories, cycle)
         IN  ParseCycles(s, cycle + 1, n,
                         [workouts |-> acc.workouts \o c.workouts,
                          session_num |-> c.session_num],
                         mx, exercise_categories)

\* status "error": LiftoscriptParseError was raised, nothing is returned;
\* session_num: self.session_num when parse ends (session0 if it raised before
\* the assignment in line 276)
parse(s, squat_max, bench_max, deadlift_max, n, session0) ==
    LET v == _validate_exercises(s)
        mx == [squat |-> squat_max, bench |-> bench_max, deadlift |-> deadlift_max]
    IN  IF v.unknown_exercises # {}
        THEN [status |-> "error", error |-> "Unknown exercises (not in database)",
              names |-> v.unknown_exercises, workouts |-> <<>>, session_num |-> session0]
        ELSE LET r == ParseCycles(s, 0, n, [workouts |-> <<>>, session_num |-> 1],
                                  mx, v.exercise_categories)
             IN  [status |-> "ok", error |-> "", names |-> {},
                  workouts |-> r.workouts, session_num |-> r.session_num]

\* -------------------------------------------------- UpcomingWorkoutRepository
\* reps is stored as text: str(reps)
StrOfInt(n) == [digits |-> n]

\* one row of upcoming_workouts
RowOf(w, id) ==
    [doc_id |-> id, session |-> w.session, exercise |-> w.exercise,
     category |-> w.category, weight |-> w.weight, weight_unit |-> w.weight_unit,
     reps |-> IF IsSome(w.reps) THEN Some(StrOfInt(Get(w.reps))) ELSE None,
     comment |-> w.comment]

create_bulk(store, id0, ws) ==
    store \o [k \in 1..Len(ws) |-> RowOf(ws[k], id0 + k - 1)]

\* repo.delete_all() of the handler (upcoming.py, line 168); upcoming_repo.py defines no
\* such method: taken to delete every row and return how many there were
delete_all(store) == [store |-> <<>>, count |-> Len(store)]

\* ------------------------------------------- generate_liftoscript_workouts
NoResponse ==
    [status |-> 0, success |-> FALSE, count |-> 0, sessions |-> 0,
     deleted_count |-> 0, detail |-> ""]

\* the handler clearing the table before it has parsed
GenerateStore_DeleteFirst(store, id0, res) ==
    IF res.status = "error" \/ res.workouts = <<>> THEN delete_all(store).store
    ELSE create_bulk(delete_all(store).store, id0, res.workouts)

\* the table after the handler has run
GenerateStore(store, id0, res) ==
    IF res.status = "error" THEN store
    ELSE IF res.workouts = <<>> THEN store
    ELSE create_bulk(delete_all(store).store, id0, res.workouts)

GenerateResponse(store, res) ==
    IF res.status = "error"
    THEN [NoResponse EXCEPT !.status = 400, !.detail = res.error]
    ELSE IF res.workouts = <<>>
    THEN [NoResponse EXCEPT !.status = 200]
    ELSE [NoResponse EXCEPT !.status = 200, !.success = TRUE,
                            !.count = Len(res.workouts),
                            !.sessions = Cardinality({res.workouts[k].session :
                                                          k \in 1..Len(res.workouts)}),
                            !.deleted_count = delete_all(store).count]

generate_liftoscript_workouts ==
    /\ pc = "request"
    /\ \E res \in {parse(script, DEFAULT_SQUAT_MAX, DEFAULT_BENCH_MAX,
                         DEFAULT_DEADLIFT_MAX, num_cycles, session_num)} :
           /\ parsed' = res
           /\ session_num' = res.session_num
           /\ upcoming' = GenerateStore(upcoming, next_id, res)
           /\ next_id' = next_id + Len(res.workouts)
           /\ response' = GenerateResponse(upcoming, res)
    /\ pc' = "done"
    /\ UNCHANGED <<script, num_cycles>>
    /\ UNCHANGED svars

\* ------------------------------------------------- calculate_estimated_1rm
\* The arguments are Python values: None, an int, a float (the fraction
\* num/den) or a str (its characters).  big marks an int above the range of a
\* float, such as 10**400.
PyNone == [type |-> "NoneType", num |-> 0, den |-> 1, big |-> FALSE, chars |-> <<>>]
PyInt(n) == [type |-> "int", num |-> n, den |-> 1, big |-> FALSE, chars |-> <<>>]
PyBigInt == [type |-> "int", num |-> 0, den |-> 1, big |-> TRUE, chars |-> <<>>]
PyFloat(num, den) == [type |-> "float", num |-> num, den |-> den, big |-> FALSE, chars |-> <<>>]
PyStr(chars) == [type |-> "str", num |-> 0, den |-> 1, big |-> FALSE, chars |-> chars]

\* what a conversion gives: a number, or the exception it raises
Value(num, den, big) == [raises |-> "", num |-> num, den |-> den, big |-> big]
Raises(exception) == [raises |-> exception, num |-> 0, den |-> 1, big |-> FALSE]

DecimalDigits == <<"0", "1", "2", "3", "4", "5", "6", "7", "8", "9">>
IsDigit(c) == \E d \in 1..Len(DecimalDigits) : DecimalDigits[d] = c
DigitValue(c) == (CHOOSE d \in 1..Len(DecimalDigits) : DecimalDigits[d] = c) - 1

\* the number a string of digits spells
RECURSIVE DigitsValue(_)
DigitsValue(cs) ==
    IF cs = <<>> THEN 0
    ELSE 10 * DigitsValue(SubSeq(cs, 1, Len(cs) - 1)) + DigitValue(cs[Len(cs)])

RECURSIVE Pow10(_)
Pow10(k) == IF k = 0 THEN 1 ELSE 10 * Pow10(k - 1)

\* str.strip()
RECURSIVE Strip(_)
Strip(cs) ==
    IF cs # <<>> /\ cs[1] = " " THEN Strip(Tail(cs))
    ELSE IF cs # <<>> /\ cs[Len(cs)] = " " THEN Strip(SubSeq(cs, 1, Len(cs) - 1))
    ELSE cs

\* str.replace(old, ""), old a single character
Replace(cs, old) == SelectSeq(cs, LAMBDA c : c # old)

Signed(cs) == cs # <<>> /\ cs[1] \in {"+", "-"}
Unsigned(cs) == IF Signed(cs) THEN Tail(cs) ELSE cs
SignOf(cs) == IF cs # <<>> /\ cs[1] = "-" THEN -1 ELSE 1

\* int(x): a str must spell an optionally signed run of digits
int(x) ==
    IF x.type = "NoneType" THEN Raises("TypeError")
    ELSE IF x.type = "str"
    THEN LET cs == Strip(x.chars)
             body == Unsigned(cs)
         IN  IF body = <<>> \/ \E k \in 1..Len(body) : ~IsDigit(body[k])
             THEN Raises("ValueError")
             ELSE Value(SignOf(cs) * DigitsValue(body), 1, FALSE)
    ELSE IF x.type = "float" THEN Value(x.num \div x.den, 1, FALSE)
    ELSE Value(x.num, 1, x.big)

\* float(x): a str must spell an optionally signed decimal number
float(x) ==
    IF x.type = "NoneType" THEN Raises("TypeError")
    ELSE IF x.type = "str"
    THEN LET cs == Strip(x.chars)
             body == Unsigned(cs)
             points == {k \in 1..Len(body) : body[k] = "."}
             digits == Replace(body, ".")
             places == IF points = {} THEN 0
                       ELSE Len(body) - (CHOOSE k \in points : TRUE)
         IN  IF \/ digits = <<>>
                \/ Cardinality(points) > 1
                \/ \E k \in 1..Len(digits) : ~IsDigit(digits[k])
             THEN Raises("ValueError")
             ELSE Value(SignOf(cs) * DigitsValue(digits), Pow10(places), FALSE)
    ELSE IF x.big THEN Raises("OverflowError")
    ELSE Value(x.num, x.den, FALSE)

\* 0.033 = ONE_RM_NUM / ONE_RM_DEN
ONE_RM_NUM == 33
ONE_RM_DEN == 1000

\* round(num / den, 1) in tenths, for num >= 0.  The code rounds the binary64
\* result of the formula; that lies within rounding error of num/den, so it
\* rounds as num/den does unless num/den is exactly halfway between two
\* tenths, where the side the binary64 value fell on decides: fp_above holds
\* the inputs (key) for which it fell above.
Round1(num, den, key) ==
    LET q == (10 * num) \div den
        r == (10 * num) % den
    IN  IF 2 * r < den THEN q
        ELSE IF 2 * r > den THEN q + 1
        ELSE IF key \in fp_above THEN q + 1 ELSE q

\* whether weight_num * (1 + 0.033 * reps_num) is such a halfway case
IsDecimalTie(weight_num, reps_num) ==
    LET num == weight_num.num * (ONE_RM_DEN + ONE_RM_NUM * reps_num.num)
        den == weight_num.den * ONE_RM_DEN
    IN  2 * ((10 * num) % den) = den

\* the result in tenths (val10), or the exception that leaves the function
calculate_estimated_1rm(weight, reps) ==
    LET reps_num == IF reps.type = "str" THEN int(PyStr(Replace(reps.chars, "+")))
                    ELSE int(reps)
        weight_num == float(weight)
        caught == {"ValueError", "TypeError"}
    IN  IF reps_num.raises \in caught THEN [raises |-> "", val10 |-> 0]
        ELSE IF reps_num.raises # "" THEN [raises |-> reps_num.raises, val10 |-> 0]
        ELSE IF weight_num.raises \in caught THEN [raises |-> "", val10 |-> 0]
        ELSE IF weight_num.raises # "" THEN [raises |-> weight_num.raises, val10 |-> 0]
        ELSE IF reps_num.big THEN [raises |-> "OverflowError", val10 |-> 0]
        ELSE [raises |-> "",
              val10 |-> Round1(weight_num.num * (ONE_RM_DEN + ONE_RM_NUM * reps_num.num),
                               weight_num.den * ONE_RM_DEN,
                               <<weight_num.num, weight_num.den, reps_num.num>>)]

\* --------------------------------------------------------- WorkoutRepository
\* A date column holds text, by convention YYYY-MM-DD; a text is the list of
\* its characters and texts are ordered as Python and the database order
\* strings, character by character.
CharOrder ==
    <<" ", "+", "-", ".", "0", "1", "2", "3", "4", "5", "6", "7", "8", "9">>
CharRank(c) == CHOOSE k \in 1..Len(CharOrder) : CharOrder[k] = c

RECURSIVE TextLess(_, _)
TextLess(a, b) ==
    IF b = <<>> THEN FALSE
    ELSE IF a = <<>> THEN TRUE
    ELSE IF a[1] = b[1] THEN TextLess(Tail(a), Tail(b))
    ELSE CharRank(a[1]) < CharRank(b[1])

\* ------------------------------------------------------------- datetime.date
Date(y, m, d) == [y |-> y, m |-> m, d |-> d]

DaysInMonth(y, m) ==
    IF m = 2 THEN (IF (y % 4 = 0 /\ y % 100 # 0) \/ y % 400 = 0 THEN 29 ELSE 28)
    ELSE IF m \in {4, 6, 9, 11} THEN 30 ELSE 31

\* n written with width digits
ZeroPadded(n, width) ==
    [k \in 1..width |-> DecimalDigits[((n \div Pow10(width - k)) % 10) + 1]]

\* date.isoformat()
isoformat(date) ==
    ZeroPadded(date.y, 4) \o <<"-">> \o ZeroPadded(date.m, 2) \o <<"-">> \o ZeroPadded(date.d, 2)

\* datetime.fromisoformat(text).date() for a text of ten characters or fewer
\* without a week or ordinal date: the date, or None for ValueError
fromisoformat(text) ==
    IF /\ Len(text) = 10
       /\ text[5] = "-" /\ text[8] = "-"
       /\ \A k \in {1, 2, 3, 4, 6, 7, 9, 10} : IsDigit(text[k])
    THEN LET y == DigitsValue(SubSeq(text, 1, 4))
             m == DigitsValue(SubSeq(text, 6, 7))
             d == DigitsValue(SubSeq(text, 9, 10))
         IN  IF y >= 1 /\ m \in 1..12 /\ d \in 1..DaysInMonth(y, m)
             THEN Some(Date(y, m, d)) ELSE None
    ELSE None

\* date + timedelta(days=days)
RECURSIVE timedelta(_, _)
timedelta(date, days) ==
    IF days = 0 THEN date
    ELSE timedelta(IF date.d < DaysInMonth(date.y, date.m) THEN Date(date.y, date.m, date.d + 1)
                   ELSE IF date.m < 12 THEN Date(date.y, date.m + 1, 1)
                   ELSE Date(date.y + 1, 1, 1),
                   days - 1)

\* _serialize: the weight as a float or None, the reps text as an int when it is
\* all digits (the rows of both tables hold reps written from an int)
WeightValue(row) == IF IsSome(row.weight) THEN PyFloat(Get(row.weight), 1) ELSE PyNone
RepsValueOf(row) == IF IsSome(row.reps) THEN PyInt(Get(row.reps).digits) ELSE PyNone

\* bool(x)
Truthy(x) ==
    CASE x.type = "NoneType" -> FALSE
      [] x.type = "str" -> x.chars # <<>>
      [] OTHER -> x.big \/ x.num # 0

\* get_by_exercise: the rows of the exercise ORDER BY date; the order of rows
\* of one date is not fixed by the query, so every such order is a possible
\* result
get_by_exercise(rows, exercise) ==
    LET I == {i \in 1..Len(rows) : rows[i].exercise = exercise}
        orders == {o \in [1..Cardinality(I) -> I] :
                      /\ \A a, b \in 1..Cardinality(I) : a # b => o[a] # o[b]
                      /\ \A a, b \in 1..Cardinality(I) :
                             a < b => ~TextLess(rows[o[b]].date, rows[o[a]].date)}
    IN  {[k \in 1..Cardinality(I) |-> rows[o[k]]] : o \in orders}

\* ------------------------------------------------------------ WendlerService
MAIN_LIFTS == <<[exercise |-> SQUAT, category |-> "Legs"],
                [exercise |-> BENCH, category |-> "Push"],
                [exercise |-> DEADLIFT, category |-> "Pull"]>>

Accessory(exercise, category, comment) ==
    [exercise |-> exercise, category |-> category, comment |-> comment]

ACCESSORIES ==
    [squat_day |-> <<Accessory("Pull Up", "Pull", Some("Bodyweight")),
                     Accessory("Incline Dumbbell Press", "Push", None),
                     Accessory("Decline Crunch", "Core", None)>>,
     bench_day |-> <<Accessory("Front Squat", "Legs", None),
                     Accessory("Dumbbell Row", "Pull", None),
                     Accessory("Landmines", "Core", None)>>,
     deadlift_day |-> <<Accessory("Parallel Bar Triceps Dip", "Push", Some("Bodyweight")),
                        Accessory("Bulgarian Split Squat", "Legs", None),
                        Accessory("Cable side bend", "Core", None)>>]

\* (percentage, reps) by week, the percentage in hundredths
PctReps(pct, reps) == [pct |-> pct, reps |-> PyInt(reps)]
WEEK_PERCENTAGES ==
    <<<<PctReps(65, 5), PctReps(75, 5), PctReps(85, 5)>>,
      <<PctReps(70, 3), PctReps(80, 3), PctReps(90, 3)>>,
      <<PctReps(75, 5), PctReps(85, 3), PctReps(95, 1)>>,
      <<PctReps(40, 5), PctReps(50, 5), PctReps(60, 5)>>>>

\* the last 10 entries with weight and reps, the best estimate among them in
\* tenths; workouts_of: what get_by_exercise returned
get_latest_estimated_1rm(workouts_of) ==
    LET logged == SelectSeq(workouts_of,
                          LAMBDA w : Truthy(WeightValue(w)) /\ Truthy(RepsValueOf(w)))
        recent_workouts == SubSeq(logged, IF Len(logged) > 10 THEN Len(logged) - 9 ELSE 1,
                                  Len(logged))
        estimates == {calculate_estimated_1rm(WeightValue(recent_workouts[k]),
                                              RepsValueOf(recent_workouts[k])).val10 :
                          k \in 1..Len(recent_workouts)}
        best_1rm == IF estimates = {} THEN 0
                    ELSE CHOOSE e \in estimates : \A f \in estimates : f <= e
    IN  IF logged = <<>> THEN None
        ELSE IF best_1rm > 0 THEN Some(best_1rm) ELSE None

\* halves going up instead of to the even multiple
round_to_nearest_5_HalfUp(num, den) == ((2 * num + 5 * den) \div (10 * den)) * 5

\* round(weight / 5) * 5 for weight = num / den
round_to_nearest_5(num, den) == PyRound(num, 5 * den) * 5

\* the weights without the step down from a multiple of 10
calculate_weights_NoDecrement(max_weight10, week) ==
    [k \in 1..Len(WEEK_PERCENTAGES[week]) |->
        [weight |-> round_to_nearest_5(max_weight10 * WEEK_PERCENTAGES[week][k].pct, 1000),
         reps |-> WEEK_PERCENTAGES[week][k].reps]]

\* max_weight in tenths of a pound
calculate_weights(max_weight10, week) ==
    [k \in 1..Len(WEEK_PERCENTAGES[week]) |->
        LET pct == WEEK_PERCENTAGES[week][k].pct
            weight == round_to_nearest_5(max_weight10 * pct, 1000)
        IN  [weight |-> IF weight % 10 = 0 THEN weight - 5 ELSE weight,
             reps |-> WEEK_PERCENTAGES[week][k].reps]]

\* the estimate of every main lift that has one; seen: for every main lift,
\* what get_by_exercise returned
get_current_maxes(seen) ==
    [k \in 1..Len(MAIN_LIFTS) |-> get_latest_estimated_1rm(seen[k])]

\* the 1RMs taken when none is given and none can be estimated
FALLBACK_SQUAT_MAX == 225
FALLBACK_BENCH_MAX == 185
FALLBACK_DEADLIFT_MAX == 275

\* squat_max or current_maxes.get(..., default), in tenths
StartingMax(given, current, default) ==
    IF IsSome(given) /\ Get(given) # 0 THEN 10 * Get(given)
    ELSE IF IsSome(current) THEN Get(current)
    ELSE 10 * default

\* existing: the rows get_all returned
StartSession(existing) ==
    IF existing # <<>>
    THEN SetMax({existing[k].session : k \in 1..Len(existing)}) + 1
    ELSE 1

WeekLabel(week) ==
    CASE week = 1 -> "Week 1" [] week = 2 -> "Week 2" [] week = 3 -> "Week 3"
      [] OTHER -> "Week 4 Deload"

\* the three sets of a day's main lift (cycle and week tell where an entry
\* came from; the code does not store them)
MainSets(session_no, lift, max_weight10, week, cycle_idx) ==
    LET weights == calculate_weights(max_weight10, week)
    IN  [set_idx \in 1..Len(weights) |->
            [session |-> session_no,
             exercise |-> MAIN_LIFTS[lift].exercise,
             category |-> MAIN_LIFTS[lift].category,
             weight |-> Some(weights[set_idx].weight),
             weight_unit |-> "lbs",
             reps |-> Some(weights[set_idx].reps.num),
             comment |-> Some(<<[text |-> WeekLabel(week),
                                 arg |-> DecimalDigits[set_idx + 1]]>>),
             cycle |-> cycle_idx, week |-> week]]

\* the accessories of a day; weighted: the call passes weight (the squat and
\* deadlift days do, the bench day does not)
DayAccessories(session_no, day, weighted, week, cycle_idx) ==
    [k \in 1..Len(day) |->
        [session |-> session_no,
         exercise |-> day[k].exercise,
         category |-> day[k].category,
         weight |-> IF weighted /\ day[k].comment = Some("Bodyweight") THEN Some(0) ELSE None,
         weight_unit |-> "lbs",
         reps |-> None,
         comment |-> IF IsSome(day[k].comment)
                     THEN Some(<<[text |-> Get(day[k].comment), arg |-> ""]>>) ELSE None,
         cycle |-> cycle_idx, week |-> week]]

\* the bench day reusing the squat day's session number
WeekEntries_NoIncrement(session_no, squat_1rm, bench_1rm, deadlift_1rm, week, cycle_idx) ==
    MainSets(session_no, 1, squat_1rm, week, cycle_idx)
    \o DayAccessories(session_no, ACCESSORIES.squat_day, TRUE, week, cycle_idx)
    \o MainSets(session_no, 2, bench_1rm, week, cycle_idx)
    \o DayAccessories(session_no, ACCESSORIES.bench_day, FALSE, week, cycle_idx)
    \o MainSets(session_no + 2, 3, deadlift_1rm, week, cycle_idx)
    \o DayAccessories(session_no + 2, ACCESSORIES.deadlift_day, TRUE, week, cycle_idx)

\* one pass of the loop over the weeks: squat day, bench day, deadlift day
WeekEntries(session_no, squat_1rm, bench_1rm, deadlift_1rm, week, cycle_idx) ==
    MainSets(session_no, 1, squat_1rm, week, cycle_idx)
    \o DayAccessories(session_no, ACCESSORIES.squat_day, TRUE, week, cycle_idx)
    \o MainSets(session_no + 1, 2, bench_1rm, week, cycle_idx)
    \o DayAccessories(session_no + 1, ACCESSORIES.bench_day, FALSE, week, cycle_idx)
    \o MainSets(session_no + 2, 3, deadlift_1rm, week, cycle_idx)
    \o DayAccessories(session_no + 2, ACCESSORIES.deadlift_day, TRUE, week, cycle_idx)

\* for week in range(1, 5)
RECURSIVE WeeksFrom(_, _, _, _, _, _)
WeeksFrom(week, session_no, squat_1rm, bench_1rm, deadlift_1rm, cycle_idx) ==
    IF week > Len(WEEK_PERCENTAGES) THEN <<>>
    ELSE WeekEntries(session_no, squat_1rm, bench_1rm, deadlift_1rm, week, cycle_idx)
         \o WeeksFrom(week + 1, session_no + Len(MAIN_LIFTS),
                      squat_1rm, bench_1rm, deadlift_1rm, cycle_idx)

\* 10, 5 and 10 pounds more per cycle, in tenths
SQUAT_STEP == 100
BENCH_STEP == 50
DEADLIFT_STEP == 100

\* for cycle_idx in range(num_cycles)
RECURSIVE CyclesFrom(_, _, _, _, _, _)
CyclesFrom(cycle_idx, n, session_no, starting_squat, starting_bench, starting_deadlift) ==
    IF cycle_idx >= n THEN <<>>
    ELSE WeeksFrom(1, session_no,
                   starting_squat + cycle_idx * SQUAT_STEP,
                   starting_bench + cycle_idx * BENCH_STEP,
                   starting_deadlift + cycle_idx * DEADLIFT_STEP, cycle_idx)
         \o CyclesFrom(cycle_idx + 1, n,
                       session_no + Len(WEEK_PERCENTAGES) * Len(MAIN_LIFTS),
                       starting_squat, starting_bench, starting_deadlift)

\* starting_squat, starting_bench, starting_deadlift, in tenths
StartingMaxes(squat_max, bench_max, deadlift_max, seen) ==
    LET current_maxes == get_current_maxes(seen)
    IN  <<StartingMax(squat_max, current_maxes[1], FALLBACK_SQUAT_MAX),
          StartingMax(bench_max, current_maxes[2], FALLBACK_BENCH_MAX),
          StartingMax(deadlift_max, current_maxes[3], FALLBACK_DEADLIFT_MAX)>>

\* the session after the highest one stored taken to be that session itself
generate_progression_SameSession(n, squat_max, bench_max, deadlift_max, seen, existing) ==
    LET starting == StartingMaxes(squat_max, bench_max, deadlift_max, seen)
    IN  CyclesFrom(0, n, IF existing # <<>> THEN StartSession(existing) - 1 ELSE 1,
                   starting[1], starting[2], starting[3])

generate_progression(n, squat_max, bench_max, deadlift_max, seen, existing) ==
    LET starting == StartingMaxes(squat_max, bench_max, deadlift_max, seen)
    IN  CyclesFrom(0, n, StartSession(existing), starting[1], starting[2], starting[3])

\* what generate_and_save returns
NoGeneration ==
    [success |-> FALSE, count |-> 0, sessions |-> 0, session_range |-> <<>>, cycles |-> 0]

GenerationSummary(generated, created, n) ==
    IF generated = <<>> THEN NoGeneration
    ELSE LET sessions == {generated[k].session : k \in 1..Len(generated)}
         IN  [success |-> TRUE, count |-> Len(created), sessions |-> Cardinality(sessions),
              session_range |-> <<SetMin(sessions), SetMax(sessions)>>, cycles |-> n]

\* what get_by_exercise can return for the three main lifts
MainLiftHistories ==
    {<<squat, bench, deadlift>> :
        squat \in get_by_exercise(workouts, SQUAT),
        bench \in get_by_exercise(workouts, BENCH),
        deadlift \in get_by_exercise(workouts, DEADLIFT)}

\* one call, start to finish
generate_and_save(n, squat_max, bench_max, deadlift_max) ==
    \E seen \in MainLiftHistories :
    \E generated \in {generate_progression(n, squat_max, bench_max, deadlift_max,
                                           seen, upcoming)} :
        /\ upcoming' = create_bulk(upcoming, next_id, generated)
        /\ next_id' = next_id + Len(generated)
        /\ wendler' = [num_cycles |-> n, squat_max |-> squat_max, bench_max |-> bench_max,
                       deadlift_max |-> deadlift_max, start_session |-> StartSession(upcoming),
                       starting |-> StartingMaxes(squat_max, bench_max, deadlift_max, seen),
                       workouts |-> generated,
                       result |-> GenerationSummary(generated, generated, n)]
        /\ log' = Append(log, GenerationSummary(generated, generated, n))
        /\ UNCHANGED <<script, num_cycles, session_num, parsed, response, pc>>
        /\ UNCHANGED <<workouts, fp_above, estimate, projection, requests, parsers, average>>

\* -------------------------------------------------------- ProgressionService
\* get_all: the rows ORDER BY session; the order of the rows of one session is
\* not fixed by the query, so every such order is a possible result
get_all(rows) ==
    LET orders == {o \in [1..Len(rows) -> 1..Len(rows)] :
                      /\ \A a, b \in 1..Len(rows) : a # b => o[a] # o[b]
                      /\ \A a, b \in 1..Len(rows) :
                             a < b => rows[o[a]].session <= rows[o[b]].session}
    IN  {[k \in 1..Len(rows) |-> rows[o[k]]] : o \in orders}

\* the dict stored for a date
HistoricalPoint(w, estimated_1rm) ==
    [date |-> w.date, weight |-> w.weight, weight_unit |-> w.weight_unit,
     reps |-> w.reps, estimated_1rm |-> estimated_1rm, comment |-> w.comment]

\* an equal estimate replacing the one stored
HistoricalStep_LastWins(by_date, w) ==
    IF ~Truthy(WeightValue(w)) \/ ~Truthy(RepsValueOf(w)) THEN by_date
    ELSE LET estimated_1rm == calculate_estimated_1rm(WeightValue(w), RepsValueOf(w)).val10
             at == {k \in 1..Len(by_date) : by_date[k].date = w.date}
         IN  IF at = {} THEN Append(by_date, HistoricalPoint(w, estimated_1rm))
             ELSE IF \A k \in at : estimated_1rm >= by_date[k].estimated_1rm
             THEN [k \in 1..Len(by_date) |->
                      IF k \in at THEN HistoricalPoint(w, estimated_1rm) ELSE by_date[k]]
             ELSE by_date

\* one pass of the loop over historical_workouts; by_date: the values of
\* historical_by_date in the order their dates were first stored
HistoricalStep(by_date, w) ==
    IF ~Truthy(WeightValue(w)) \/ ~Truthy(RepsValueOf(w)) THEN by_date
    ELSE LET estimated_1rm == calculate_estimated_1rm(WeightValue(w), RepsValueOf(w)).val10
             at == {k \in 1..Len(by_date) : by_date[k].date = w.date}
         IN  IF at = {} THEN Append(by_date, HistoricalPoint(w, estimated_1rm))
             ELSE IF \A k \in at : estimated_1rm > by_date[k].estimated_1rm
             THEN [k \in 1..Len(by_date) |->
                      IF k \in at THEN HistoricalPoint(w, estimated_1rm) ELSE by_date[k]]
             ELSE by_date

RECURSIVE HistoricalByDate(_, _, _)
HistoricalByDate(historical_workouts, i, by_date) ==
    IF i > Len(historical_workouts) THEN by_date
    ELSE HistoricalByDate(historical_workouts, i + 1,
                          HistoricalStep(by_date, historical_workouts[i]))

\* list.sort(key=lambda x: x['date']): ascending, equal dates keep their order
RECURSIVE SortedByDate(_)
SortedByDate(points) ==
    IF points = <<>> THEN <<>>
    ELSE LET last == points[Len(points)]
             front == SortedByDate(SubSeq(points, 1, Len(points) - 1))
             before == SelectSeq(front, LAMBDA x : ~TextLess(last.date, x.date))
             after == SelectSeq(front, LAMBDA x : TextLess(last.date, x.date))
         IN  before \o <<last>> \o after

\* historical; seen: what get_by_exercise returned
Historical(seen) == SortedByDate(HistoricalByDate(seen, 1, <<>>))

\* sorted(sessions.keys())
RECURSIVE Sorted(_)
Sorted(S) == IF S = {} THEN <<>> ELSE <<SetMin(S)>> \o Sorted(S \ {SetMin(S)})

SessionKeys(all_upcoming) ==
    Sorted({all_upcoming[k].session : k \in 1..Len(all_upcoming)})

\* the first session projected on the last logged day itself
StartDate_SameDay(historical, today) ==
    IF historical # <<>>
    THEN LET last_date == fromisoformat(historical[Len(historical)].date)
         IN  IF IsSome(last_date) THEN Get(last_date) ELSE today
    ELSE today

\* start_date
StartDate(historical, today) ==
    IF historical # <<>>
    THEN LET last_date == fromisoformat(historical[Len(historical)].date)
         IN  IF IsSome(last_date) THEN timedelta(Get(last_date), 2) ELSE today
    ELSE today

\* the date taken from the session number, not from its place among the sessions
session_to_date_BySessionNumber(keys, start_date) ==
    [k \in 1..Len(keys) |-> isoformat(timedelta(start_date, 2 * (keys[k] - 1)))]

\* session_to_date, by the position of the session among the sorted sessions
session_to_date(keys, start_date) ==
    [k \in 1..Len(keys) |-> isoformat(timedelta(start_date, 2 * (k - 1)))]

UpcomingPoint(w, session_no, projected_date, estimated_1rm) ==
    [session |-> session_no, projected_date |-> projected_date, weight |-> w.weight,
     weight_unit |-> w.weight_unit, reps |-> w.reps, estimated_1rm |-> estimated_1rm,
     comment |-> w.comment]

\* the loop over exercise_workouts: best_workout, None before any set counted
RECURSIVE BestWorkout(_, _, _, _, _)
BestWorkout(exercise_workouts, i, session_no, projected_date, best_workout) ==
    IF i > Len(exercise_workouts) THEN best_workout
    ELSE LET w == exercise_workouts[i]
             estimated_1rm == calculate_estimated_1rm(WeightValue(w), RepsValueOf(w)).val10
             best_estimated_1rm == IF IsSome(best_workout)
                                   THEN Get(best_workout).estimated_1rm ELSE 0
         IN  BestWorkout(exercise_workouts, i + 1, session_no, projected_date,
                 IF ~Truthy(WeightValue(w)) \/ ~Truthy(RepsValueOf(w)) THEN best_workout
                 ELSE IF estimated_1rm > best_estimated_1rm
                 THEN Some(UpcomingPoint(w, session_no, projected_date, estimated_1rm))
                 ELSE best_workout)

\* every set of the exercise appended, not the best of the session
SessionPoints_EverySet(all_upcoming, exercise, session_no, projected_date) ==
    LET exercise_workouts ==
            SelectSeq(all_upcoming, LAMBDA w : /\ w.session = session_no
                                               /\ w.exercise = exercise
                                               /\ Truthy(WeightValue(w)))
    IN  [k \in 1..Len(exercise_workouts) |->
            UpcomingPoint(exercise_workouts[k], session_no, projected_date, 0)]

\* the first set of the exercise in the session taken, not the best
SessionPoints_FirstSet(all_upcoming, exercise, session_no, projected_date) ==
    LET exercise_workouts ==
            SelectSeq(all_upcoming, LAMBDA w : /\ w.session = session_no
                                               /\ w.exercise = exercise
                                               /\ Truthy(WeightValue(w)))
    IN  IF exercise_workouts = <<>> THEN <<>>
        ELSE <<UpcomingPoint(exercise_workouts[1], session_no, projected_date,
                             calculate_estimated_1rm(WeightValue(exercise_workouts[1]),
                                                     RepsValueOf(exercise_workouts[1])).val10)>>

\* what one pass of the loop over the sorted sessions appends to upcoming
SessionPoints(all_upcoming, exercise, session_no, projected_date) ==
    LET exercise_workouts ==
            SelectSeq(all_upcoming, LAMBDA w : /\ w.session = session_no
                                               /\ w.exercise = exercise
                                               /\ Truthy(WeightValue(w)))
        best_workout == BestWorkout(exercise_workouts, 1, session_no, projected_date, None)
    IN  IF IsSome(best_workout) THEN <<Get(best_workout)>> ELSE <<>>

RECURSIVE UpcomingFrom(_, _, _, _, _)
UpcomingFrom(k, keys, dates, all_upcoming, exercise) ==
    IF k > Len(keys) THEN <<>>
    ELSE SessionPoints(all_upcoming, exercise, keys[k], dates[k])
         \o UpcomingFrom(k + 1, keys, dates, all_upcoming, exercise)

\* seen: what get_by_exercise returned, all_upcoming: what get_all returned,
\* today: datetime.now(PACIFIC_TZ).date()
get_progression_data(exercise, include_upcoming, seen, all_upcoming, today) ==
    LET historical == Historical(seen)
        keys == SessionKeys(all_upcoming)
        dates == session_to_date(keys, StartDate(historical, today))
    IN  [exercise |-> exercise,
         historical |-> historical,
         upcoming |-> IF include_upcoming
                      THEN UpcomingFrom(1, keys, dates, all_upcoming, exercise)
                      ELSE <<>>]

\* a request served: the lists the repositories returned and the answer
Projected(exercise, include_upcoming, seen, all_upcoming, today) ==
    [seen |-> seen, all_upcoming |-> all_upcoming, today |-> today,
     include_upcoming |-> include_upcoming,
     data |-> get_progression_data(exercise, include_upcoming, seen, all_upcoming, today)]

\* GET /progression/{exercise}
get_progression(exercise, include_upcoming, today) ==
    /\ projection.pc = "idle"
    /\ \E seen \in get_by_exercise(workouts, exercise) :
       \E all_upcoming \in get_all(upcoming) :
           projection' = [pc |-> "done",
                          results |-> <<Projected(exercise, include_upcoming, seen,
                                                  all_upcoming, today)>>]
    /\ UNCHANGED lvars
    /\ UNCHANGED <<workouts, fp_above, estimate, wendler, log, requests, parsers, average>>

main_lifts == <<BENCH, SQUAT, DEADLIFT>>

\* GET /progression/: get_main_lifts_progression, one get_progression_data
\* after the other
get_main_lifts(today) ==
    /\ projection.pc = "idle"
    /\ \E seen \in [1..Len(main_lifts) -> UNION {get_by_exercise(workouts, main_lifts[k]) :
                                                    k \in 1..Len(main_lifts)}] :
       \E all_upcoming \in [1..Len(main_lifts) -> get_all(upcoming)] :
           /\ \A k \in 1..Len(main_lifts) : seen[k] \in get_by_exercise(workouts, main_lifts[k])
           /\ projection' = [pc |-> "done",
                             results |-> [k \in 1..Len(main_lifts) |->
                                             Projected(main_lifts[k], TRUE, seen[k],
                                                       all_upcoming[k], today)]]
    /\ UNCHANGED lvars
    /\ UNCHANGED <<workouts, fp_above, estimate, wendler, log, requests, parsers, average>>

\* -------------------------------------------------------- services at rest
NoEstimate ==
    [weight |-> PyNone, reps |-> PyNone, pc |-> "idle",
     result |-> [raises |-> "", val10 |-> 0]]

NoWendler ==
    [num_cycles |-> 0, squat_max |-> None, bench_max |-> None, deadlift_max |-> None,
     start_session |-> 1, starting |-> <<>>, workouts |-> <<>>, result |-> NoGeneration]

NoProjection == [pc |-> "idle", results |-> <<>>]

NoAverage == [values |-> <<>>, window |-> 1, pc |-> "idle", result |-> <<>>]

\* no request besides the liftoscript request
ServicesIdle ==
    /\ workouts = <<>>
    /\ fp_above = {}
    /\ estimate = NoEstimate
    /\ wendler = NoWendler
    /\ log = <<>>
    /\ projection = NoProjection
    /\ requests = <<>>
    /\ parsers = <<>>
    /\ average = NoAverage

\* ------------------------------------------------------------------- inputs
Bare(n, m) == Part(Some(SetTok(n, m, FALSE, None)), None, None)
Weighted(n, m, amrap, v10, type) ==
    Part(Some(SetTok(n, m, amrap, None)), Some(WeightTok(v10, type, FALSE)), None)

Lines ==
    { Blank, Header, Text,
      Comment("1RM", BENCH, 2030, "lb"),                         \* // Flat Barbell Bench Press 1RM: 203lb
      Comment("SW", SQUAT, 1000, "lb"),                          \* // Barbell Squat SW: 100lb
      Exercise(SQUAT, <<<<Bare(2, 5)>>>>),                       \* Barbell Squat / 2x5
      Exercise(SQUAT, <<<<Part(Some(SetTok(1, 5, FALSE, None)),  \* Barbell Squat / 1x5 progress: lp(10lb)
                              Some(WeightTok(100, "lb", TRUE)), None)>>>>),
      Exercise(BENCH, <<<<Weighted(1, 5, FALSE, 770, "%")>>>>),  \* Flat Barbell Bench Press / 1x5 77%
      Exercise(DEADLIFT, <<<<Weighted(1, 5, FALSE, 600, "kg")>>>>), \* Deadlift / 1x5 60kg
      Exercise(SQUAT, <<<<Part(None, Some(WeightTok(1350, "lb", FALSE)),
                              Some("3s"))>>>>),                  \* Barbell Squat / 3sets5reps 135lb
      Exercise(UNKNOWN, <<<<Weighted(3, 10, FALSE, 500, "lb")>>>>), \* Unknown Exercise / 3x10 50lb
      Exercise(BENCH, <<<<Weighted(1, 5, FALSE, 650, "%"),
                          Weighted(1, 3, TRUE, 800, "%")>>>>),   \* ... / 1x5 65%, 1x3+ 80%
      Exercise(DEADLIFT, << <<Part(Some(SetTok(2, 8, FALSE, Some(12))), None, None)>>,
                            <<Part(None, Some(WeightTok(1000, "kg", FALSE)), None)>> >>),
                                                                 \* Deadlift / 2x8-12 / 100kg
      Exercise(SQUAT, <<<<Bare(0, 5)>>>>) }                      \* Barbell Squat / 0x5

Scripts == UNION {[1..n -> Lines] : n \in 1..MaxLines}

\* what the table holds when the request arrives
InitialStores ==
    { <<>>,
      <<[doc_id |-> 1, session |-> 1, exercise |-> DEADLIFT, category |-> "Pull",
         weight |-> Some(225), weight_unit |-> "lbs", reps |-> Some(StrOfInt(5)),
         comment |-> None]>> }

Init ==
    /\ script \in Scripts
    /\ num_cycles \in 1..MaxCycles
    /\ upcoming \in InitialStores
    /\ next_id = Len(upcoming) + 1
    /\ session_num = 1
    /\ parsed = [status |-> "none", error |-> "", names |-> {}, workouts |-> <<>>,
                   session_num |-> 1]
    /\ response = NoResponse
    /\ pc = "request"
    /\ ServicesIdle

Next == generate_liftoscript_workouts

Spec == Init /\ [][Next]_vars

\* ===================================================================== claims
\* what the claims speak about: the lines parse walks, the entries it returned
Lns == StripLines(script)
Entries == parsed.workouts
EntrySet == {Entries[k] : k \in 1..Len(Entries)}
Answered == pc = "done"
Returned == pc = "done" /\ parsed.status = "ok"
ExerciseLines == {i \in 1..Len(Lns) : Lns[i].kind = "exercise"}
\* the entries of line i in cycle c, in the order returned
EntriesOf(i, c) == SelectSeq(Entries, LAMBDA e : e.line = i /\ e.cycle = c)
\* the weight tokens written on line i
TokensOf(i) ==
    UNION {{Get(Lns[i].tail[a][b].weight) :
                b \in {x \in 1..Len(Lns[i].tail[a]) : IsSome(Lns[i].tail[a][x].weight)}} :
           a \in 1..Len(Lns[i].tail)}
\* the weight token of the set spec an entry was expanded from (None: it has none)
TokenOf(e) == SetSpecOf(Lns[e.line].tail)[e.part].weight
\* header comments: the declarations that stand before the first exercise line
Headers(decl, name) ==
    {i \in 1..Len(Lns) : /\ Lns[i].kind = "comment"
                         /\ Lns[i].decl = decl /\ Lns[i].name = name
                         /\ \A j \in ExerciseLines : i < j}
\* the declared value in pounds, as a fraction
Declared(decl, name) ==
    LET i == CHOOSE h \in Headers(decl, name) : \A g \in Headers(decl, name) : h <= g
    IN  IF Lns[i].unit = "kg" THEN _convert_kg_to_lbs(Lns[i].val10, 10)
        ELSE [num |-> Lns[i].val10, den |-> 10]
\* round_to_5 of num/den: the nearest multiple of 5, ties to the even multiple
RoundTo5(num, den) == 5 * PyRound(num, 5 * den)

\* the exercises that use % without a 1RM header, or lp(...) without a SW header
MissingComment ==
    {Lns[i].name : i \in {j \in ExerciseLines :
        \E t \in TokensOf(j) :
            \/ t.type = "%" /\ Headers("1RM", Lns[j].name) = {}
            \/ t.lp /\ Headers("SW", Lns[j].name) = {}}}
\* C1: a script that uses a % token for an exercise without a 1RM header comment,
\* or a progress: lp(...) token for an exercise without a SW header comment, makes
\* parse raise 'missing required comment', naming every such exercise.
C1_MissingCommentRaises ==
    (Answered /\ MissingComment # {}) =>
        /\ parsed.status = "error"
        /\ parsed.error = "missing required comment"
        /\ parsed.names = MissingComment
        /\ Entries = <<>>

\* the ## lines strictly between lines i and j
HeadersBetween(i, j) == {h \in (i + 1)..(j - 1) : Lns[h].kind = "header"}
\* C2: within one cycle two exercise lines share a session number exactly when no
\* ## line lies between them, one ## line between them raises it by exactly one,
\* and blank and // lines never change it.
C2_SessionsAreHeaderLines ==
    Returned =>
        \A e1, e2 \in EntrySet :
            (e1.cycle = 0 /\ e2.cycle = 0 /\ e1.line <= e2.line) =>
                /\ (e1.session = e2.session) <=> (HeadersBetween(e1.line, e2.line) = {})
                /\ Cardinality(HeadersBetween(e1.line, e2.line)) = 1
                       => e2.session = e1.session + 1

\* the session numbers of the entries of cycle c
SessionsOfCycle(c) == {e.session : e \in {x \in EntrySet : x.cycle = c}}
\* C3: the session counter is not reset between cycles: cycle c+1 starts one past
\* the last session of cycle c, sessions never decrease along the result, and the
\* sessions used are exactly 1..(sessions per cycle * num_cycles).
C3_SessionsDenseAcrossCycles ==
    (Returned /\ Entries # <<>>) =>
        /\ \A k \in 1..(Len(Entries) - 1) : Entries[k].session <= Entries[k + 1].session
        /\ \A c \in 0..(num_cycles - 2) :
               SetMin(SessionsOfCycle(c + 1)) = SetMax(SessionsOfCycle(c)) + 1
        /\ {e.session : e \in EntrySet}
               = 1..(Cardinality(SessionsOfCycle(0)) * num_cycles)

\* C4: a percentage token p% on exercise E resolves to round_to_5(one_rm(E) * p / 100),
\* one_rm(E) being the value of E's own 1RM header comment (kg converted to lbs).
C4_PercentOfDeclaredMax ==
    Returned =>
        \A e \in EntrySet :
            (/\ IsSome(TokenOf(e)) /\ Get(TokenOf(e)).type = "%"
             /\ Headers("1RM", e.exercise) # {}) =>
                LET rm == Declared("1RM", e.exercise)
                IN  e.weight = Some(RoundTo5(rm.num * Get(TokenOf(e)).val10, rm.den * 1000))

\* C5: a progress: lp(inc) token on exercise E with starting weight SW resolves in
\* cycle c (0-based) to round_to_5(SW + inc * c).
C5_LinearProgression ==
    Returned =>
        \A e \in EntrySet :
            (/\ IsSome(TokenOf(e)) /\ Get(TokenOf(e)).lp
             /\ Headers("SW", e.exercise) # {}) =>
                LET sw == Declared("SW", e.exercise)
                    t == Get(TokenOf(e))
                    inc == IF t.type = "kg" THEN _convert_kg_to_lbs(t.val10, 10)
                           ELSE [num |-> t.val10, den |-> 10]
                IN  e.weight = Some(RoundTo5(sw.num * inc.den + inc.num * e.cycle * sw.den,
                                             sw.den * inc.den))

\* C6: parsing is all-or-nothing: when parse raises it returns no entries, and the
\* generate request answers 400 and leaves the stored upcoming workouts as they were.
C6_FailedParseChangesNothing ==
    [][(pc = "request" /\ pc' = "done" /\ parsed'.status = "error") =>
           /\ parsed'.workouts = <<>>
           /\ response'.status = 400
           /\ upcoming' = upcoming
           /\ next_id' = next_id]_vars
\* a request whose parse failed was answered while the table held rows
C6_Witness == Answered /\ parsed.status = "error" /\ upcoming # <<>>

\* the exercise lines with a comma part after the "/" in which NxM does not match
InvalidSetSpec ==
    {i \in ExerciseLines :
        /\ Len(Lns[i].tail) >= 1
        /\ \E b \in 1..Len(Lns[i].tail[1]) : Lns[i].tail[1][b].set = None}
\* C7: an exercise line whose set-spec token does not match <N>x<M> makes parse raise
\* 'Invalid sets/reps format'; the line is never silently dropped.
C7_InvalidSetSpecRaises ==
    (Answered /\ InvalidSetSpec # {}) =>
        /\ parsed.status = "error"
        /\ parsed.error = "Invalid sets/reps format"

\* C8: parse never fails because an exercise is unknown to the lookup: entries of
\* unknown exercises are emitted with category "Other", the others with the looked-up one.
C8_UnknownExerciseIsOther ==
    Answered =>
        /\ parsed.error # "Unknown exercises (not in database)"
        /\ \A i \in ExerciseLines : \A c \in 0..(num_cycles - 1) :
               \A k \in 1..Len(EntriesOf(i, c)) :
                   EntriesOf(i, c)[k].category =
                       IF ExerciseTable(Lns[i].name) = None THEN "Other"
                       ELSE Get(ExerciseTable(Lns[i].name)).category

\* the exercise lines that are <name> / NxM and nothing else
BareLines ==
    {i \in ExerciseLines :
        /\ Len(Lns[i].tail) = 1 /\ Len(Lns[i].tail[1]) = 1
        /\ IsSome(Lns[i].tail[1][1].set)
        /\ ~Get(Lns[i].tail[1][1].set).amrap
        /\ Get(Lns[i].tail[1][1].set).max_reps = None
        /\ Lns[i].tail[1][1].weight = None
        /\ Lns[i].tail[1][1].rest = None}
C10_KgToRoundedPounds ==
    Returned =>
        \A e \in EntrySet :
            /\ e.weight_unit # "kg"
            /\ (IsSome(TokenOf(e)) /\ Get(TokenOf(e)).type = "kg" /\ ~Get(TokenOf(e)).lp) =>
                   LET lbs == _convert_kg_to_lbs(Get(TokenOf(e)).val10, 10)
                   IN  e.weight = Some(RoundTo5(lbs.num, lbs.den)) /\ e.weight_unit = "lbs"

\* ============================================================ WendlerService
MaxCalls == 2

\* a logged set, the first of its date
Logged(id, date, exercise, weight, reps) ==
    [doc_id |-> id, date |-> date, exercise |-> exercise,
     category |-> IF IsSome(ExerciseTable(exercise))
                  THEN Get(ExerciseTable(exercise)).category ELSE "Other",
     weight |-> weight, weight_unit |-> "lbs", reps |-> reps, comment |-> None,
     order |-> 1]

\* the estimator inputs among the rows that are halfway cases
TieKeys(rows) ==
    {<<Get(rows[k].weight), 1, Get(rows[k].reps).digits>> :
        k \in {i \in 1..Len(rows) :
                  /\ IsSome(rows[i].weight) /\ IsSome(rows[i].reps)
                  /\ IsDecimalTie(float(WeightValue(rows[i])), int(RepsValueOf(rows[i])))}}

\* what is logged when the generator is called: nothing, or a squat day and a
\* bench day (50 x 1 estimates to 51.65, a halfway case)
WendlerHistories ==
    { <<>>,
      <<Logged(1, isoformat(Date(2024, 1, 1)), SQUAT, Some(200), Some(StrOfInt(5))),
        Logged(2, isoformat(Date(2024, 1, 1)), SQUAT, Some(225), Some(StrOfInt(3))),
        Logged(3, isoformat(Date(2024, 1, 3)), BENCH, Some(50), Some(StrOfInt(1))),
        Logged(4, isoformat(Date(2024, 1, 5)), DEADLIFT, Some(0), Some(StrOfInt(5)))>> }

\* the 1RMs a call passes: those of the tests, none, and values whose
\* percentages are whole and halfway arguments of the rounding
WendlerMaxima ==
    { <<Some(200), Some(150), Some(250)>>,
      <<None, None, None>>,
      <<Some(264), Some(179), Some(285)>>,
      <<Some(0), Some(230), Some(5)>> }

InitWendler ==
    /\ script = <<>>
    /\ num_cycles = 1
    /\ upcoming \in InitialStores
    /\ next_id = Len(upcoming) + 1
    /\ session_num = 1
    /\ parsed = [status |-> "none", error |-> "", names |-> {}, workouts |-> <<>>,
                   session_num |-> 1]
    /\ response = NoResponse
    /\ pc = "idle"
    /\ workouts \in WendlerHistories
    /\ fp_above \in SUBSET TieKeys(workouts)
    /\ estimate = NoEstimate
    /\ wendler = NoWendler
    /\ log = <<>>
    /\ projection = NoProjection
    /\ requests = <<>>
    /\ parsers = <<>>
    /\ average = NoAverage

NextWendler ==
    /\ Len(log) < MaxCalls
    /\ \E n \in 0..MaxCycles : \E maxima \in WendlerMaxima :
           generate_and_save(n, maxima[1], maxima[2], maxima[3])

SpecWendler == InitWendler /\ [][NextWendler]_vars


\* a generate_and_save call has returned / has returned workouts
Generated == Len(log) > 0
Steps == <<SQUAT_STEP, BENCH_STEP, DEADLIFT_STEP>>
\* the 1RM, in tenths, of a lift in a cycle of the last call
CycleMax(lift, cycle_idx) == wendler.starting[lift] + cycle_idx * Steps[lift]
\* the weights the last call rounded, as fractions: a cycle's 1RM times a percentage
RoundingArguments ==
    {[num |-> CycleMax(lift, cycle_idx) * WEEK_PERCENTAGES[week][k].pct, den |-> 1000] :
        lift \in 1..Len(MAIN_LIFTS), cycle_idx \in 0..(wendler.num_cycles - 1),
        week \in 1..Len(WEEK_PERCENTAGES), k \in 1..3}
Distance(r, a) == IF r * a.den >= a.num THEN r * a.den - a.num ELSE a.num - r * a.den
\* a is the number tenths / 10
Is(a, tenths) == 10 * a.num = tenths * a.den

MainLiftNames == {MAIN_LIFTS[k].exercise : k \in 1..Len(MAIN_LIFTS)}

\* C12: a call with num_cycles = N and first session s builds 72 * N entries
\* over the sessions s..s+12N-1, six per session in order: three sets of the
\* day's main lift, then three accessories; the days go squat, bench, deadlift.
C12_SeventyTwoPerCycle ==
    Generated =>
        LET W == wendler.workouts
            N == wendler.num_cycles
            s == wendler.start_session
        IN  /\ Len(W) = 72 * N
            /\ {W[k].session : k \in 1..Len(W)} = s..(s + 12 * N - 1)
            /\ \A j \in 0..(12 * N - 1) :
                   /\ \A i \in 1..3 :
                          /\ W[6 * j + i].session = s + j
                          /\ W[6 * j + i].exercise = MAIN_LIFTS[(j % 3) + 1].exercise
                          /\ IsSome(W[6 * j + i].weight) /\ IsSome(W[6 * j + i].reps)
                   /\ \A i \in 4..6 :
                          /\ W[6 * j + i].session = s + j
                          /\ W[6 * j + i].exercise \notin MainLiftNames
                          /\ W[6 * j + i].reps = None

C12_Witness ==
    /\ Generated
    /\ wendler.num_cycles = 1 /\ wendler.start_session = 1
    /\ Len(wendler.workouts) = 72
    /\ {wendler.workouts[k].session : k \in 1..72} = 1..12

\* C13: for every 1RM the week-1 sets of calculate_weights carry the reps 5, 5
\* and "5+"; for the 1RM 200 they are (125, 5), (145, 5), (165, "5+").
C13_WeekOneTopSetIsAmrap ==
    Generated /\ wendler.num_cycles > 0 =>
        \A lift \in 1..Len(MAIN_LIFTS) :
            LET sets == calculate_weights(wendler.starting[lift], 1)
            IN  /\ <<sets[1].reps, sets[2].reps, sets[3].reps>>
                       = <<PyInt(5), PyInt(5), PyStr(<<"5", "+">>)>>
                /\ wendler.starting[lift] = 2000 =>
                       <<sets[1].weight, sets[2].weight, sets[3].weight>> = <<125, 145, 165>>

StoredSessions(rows) == {rows[k].session : k \in 1..Len(rows)}
Disjoint(p, q) == p[2] < q[1] \/ q[2] < p[1]

\* C14: a call numbers its first session one past the highest session stored
\* (1 when none is stored), so the session ranges written by calls made one
\* after another do not overlap and each starts at the previous maximum + 1.
C14_SessionsContinue ==
    [][log' # log /\ wendler'.result.success =>
          LET range == wendler'.result.session_range
              written == SubSeq(upcoming', Len(upcoming) + 1, Len(upcoming'))
          IN  /\ range[1] = IF upcoming = <<>> THEN 1
                            ELSE SetMax(StoredSessions(upcoming)) + 1
              /\ StoredSessions(written) = range[1]..range[2]
              /\ StoredSessions(written) \cap StoredSessions(upcoming) = {}
              /\ \A i \in 1..Len(log) :
                     log[i].success => Disjoint(log[i].session_range, range)]_vars

C14_Witness ==
    /\ Len(log) = 2
    /\ log[1].success /\ log[2].success
    /\ log[2].session_range[1] = log[1].session_range[2] + 1


\* ======================================================== ProgressionService
MaxLogged == 2
MaxPlanned == 2

Note(text) == Some(<<[text |-> text, arg |-> ""]>>)

\* the sets that can be in the workouts table: two squat sets of one day with
\* the same estimate, a better and a later one, a bench set whose estimate is
\* a halfway case, sets without weight or reps, a date that is no date; the
\* table is not in date order
LoggedSets ==
    <<Logged(0, isoformat(Date(2024, 1, 31)), SQUAT, Some(105), Some(StrOfInt(5))),
      [Logged(0, isoformat(Date(2024, 1, 29)), SQUAT, Some(100), Some(StrOfInt(5)))
           EXCEPT !.comment = Note("first")],
      [Logged(0, isoformat(Date(2024, 1, 29)), SQUAT, Some(100), Some(StrOfInt(5)))
           EXCEPT !.comment = Note("second")],
      Logged(0, isoformat(Date(2024, 1, 29)), SQUAT, Some(110), Some(StrOfInt(3))),
      Logged(0, isoformat(Date(2024, 1, 30)), BENCH, Some(50), Some(StrOfInt(1))),
      Logged(0, isoformat(Date(2024, 1, 31)), SQUAT, Some(0), Some(StrOfInt(5))),
      Logged(0, isoformat(Date(2024, 2, 1)), BENCH, Some(60), None),
      Logged(0, <<"2", "0", "2", "4", "-", "0", "2", "-", "3", "0">>, BENCH,
             Some(60), Some(StrOfInt(5)))>>

Planned(session, exercise, category, weight, reps) ==
    [doc_id |-> 0, session |-> session, exercise |-> exercise, category |-> category,
     weight |-> weight, weight_unit |-> "lbs", reps |-> reps, comment |-> None]

\* the entries that can be in the upcoming_workouts table
PlannedSets ==
    <<Planned(2, SQUAT, "Legs", Some(130), Some(StrOfInt(1))),
      Planned(1, SQUAT, "Legs", Some(120), Some(StrOfInt(3))),
      Planned(1, BENCH, "Push", Some(125), Some(StrOfInt(2))),
      Planned(2, SQUAT, "Legs", Some(125), Some(StrOfInt(3))),
      Planned(3, BENCH, "Push", Some(0), Some(StrOfInt(5))),
      Planned(4, "Pull Up", "Pull", None, None)>>

\* the tables that hold at most max of the rows, numbered in the order given
Tables(rows, max) ==
    {[k \in 1..Cardinality(I) |-> [rows[Sorted(I)[k]] EXCEPT !.doc_id = k]] :
        I \in {J \in SUBSET (1..Len(rows)) : Cardinality(J) <= max}}

\* the day of the request
Todays == {Date(2024, 2, 28)}

InitProjection ==
    /\ script = <<>>
    /\ num_cycles = 1
    /\ upcoming \in Tables(PlannedSets, MaxPlanned)
    /\ next_id = Len(upcoming) + 1
    /\ session_num = 1
    /\ parsed = [status |-> "none", error |-> "", names |-> {}, workouts |-> <<>>,
                   session_num |-> 1]
    /\ response = NoResponse
    /\ pc = "idle"
    /\ workouts \in Tables(LoggedSets, MaxLogged)
    /\ fp_above \in SUBSET (TieKeys(workouts) \cup TieKeys(upcoming))
    /\ estimate = NoEstimate
    /\ wendler = NoWendler
    /\ log = <<>>
    /\ projection = NoProjection
    /\ requests = <<>>
    /\ parsers = <<>>
    /\ average = NoAverage

NextProjection ==
    \/ \E exercise \in {SQUAT, BENCH} : \E include_upcoming \in BOOLEAN : \E today \in Todays :
           get_progression(exercise, include_upcoming, today)
    \/ \E today \in Todays : get_main_lifts(today)

SpecProjection == InitProjection /\ [][NextProjection]_vars


\* the requests answered, their answers
Results == {projection.results[k] : k \in 1..Len(projection.results)}
Points(series) == {series[k] : k \in 1..Len(series)}
Estimate(w) == calculate_estimated_1rm(WeightValue(w), RepsValueOf(w)).val10
HasWeightAndReps(w) == Truthy(WeightValue(w)) /\ Truthy(RepsValueOf(w))
\* the logged sets of an exercise that have weight and reps
LoggedSetsOf(exercise) ==
    {w \in Points(workouts) : w.exercise = exercise /\ HasWeightAndReps(w)}
\* where in the list the repository returned the sets of a date stand
SeenOn(r, date) ==
    {k \in 1..Len(r.seen) : r.seen[k].date = date /\ HasWeightAndReps(r.seen[k])}
\* the first of them among those with the date's highest estimate
FirstBest(r, date) ==
    SetMin({k \in SeenOn(r, date) :
               \A j \in SeenOn(r, date) : Estimate(r.seen[j]) <= Estimate(r.seen[k])})

\* C15: the historical series has exactly one point per date on which a set
\* of the exercise with weight and reps (both set and not zero) was logged; the
\* point is that date's set with the highest estimated 1RM, the first one seen
\* among sets with equal estimates.
C15_BestSetPerDate ==
    \A r \in Results :
        LET historical == r.data.historical
            dates == {w.date : w \in LoggedSetsOf(r.data.exercise)}
        IN  /\ {p.date : p \in Points(historical)} = dates
            /\ Len(historical) = Cardinality(dates)
            /\ \A p \in Points(historical) :
                   LET w == r.seen[FirstBest(r, p.date)]
                   IN  /\ p.estimated_1rm = Estimate(w)
                       /\ p.weight = w.weight /\ p.reps = w.reps /\ p.comment = w.comment

C15_Witness ==
    \E r \in Results : \E p \in Points(r.data.historical) :
        \E i, j \in SeenOn(r, p.date) :
            /\ i < j
            /\ Estimate(r.seen[i]) = p.estimated_1rm
            /\ Estimate(r.seen[j]) = p.estimated_1rm
            /\ r.seen[i].comment # r.seen[j].comment
            /\ p.comment = r.seen[i].comment

\* C16: the projected date of a session does not depend on the exercise
\* projected: two exercises projected against the same tables on the same day
\* give a session that appears in both upcoming series the same date.
C16_SameDateForSharedSession ==
    \A a, b \in Results :
        \A p \in Points(a.data.upcoming) : \A q \in Points(b.data.upcoming) :
            p.session = q.session => p.projected_date = q.projected_date

\* the orders a list can be returned in
Orders(rows) ==
    {[k \in 1..Len(rows) |-> rows[o[k]]] :
        o \in {f \in [1..Len(rows) -> 1..Len(rows)] :
                  \A a, b \in 1..Len(rows) : a # b => f[a] # f[b]}}
AscendingDates(series) ==
    \A k \in 1..(Len(series) - 1) : TextLess(series[k].date, series[k + 1].date)
AscendingSessions(series) ==
    \A k \in 1..(Len(series) - 1) : series[k].session < series[k + 1].session

\* C17: the historical series is strictly ascending by date and the upcoming
\* series strictly ascending by session (no date and no session twice), in
\* whatever order the repositories return the stored entries.
C17_SeriesStrictlyAscending ==
    \A r \in Results :
        /\ AscendingDates(r.data.historical)
        /\ AscendingSessions(r.data.upcoming)
        /\ \A seen \in Orders(r.seen) :
               AscendingDates(get_progression_data(r.data.exercise, FALSE, seen,
                                                   r.all_upcoming, r.today).historical)
        /\ \A all_upcoming \in Orders(r.all_upcoming) :
               AscendingSessions(get_progression_data(r.data.exercise, r.include_upcoming,
                                                      r.seen, all_upcoming, r.today).upcoming)

C17_Witness ==
    \E r \in Results :
        /\ Len(r.data.historical) >= 2 /\ Len(r.data.upcoming) >= 2
        /\ \E i, j \in 1..Len(workouts) :
               /\ i < j /\ TextLess(workouts[j].date, workouts[i].date)
               /\ workouts[i].exercise = r.data.exercise
               /\ workouts[j].exercise = r.data.exercise
        /\ \E i, j \in 1..Len(upcoming) :
               /\ i < j /\ upcoming[j].session < upcoming[i].session
               /\ upcoming[i].exercise = r.data.exercise
               /\ upcoming[j].exercise = r.data.exercise


\* ======================================================== the 1RM estimator
\* A call of calculate_estimated_1rm beside a liftoscript request.

\* the weights and reps a caller can pass
Weights ==
    { PyInt(100), PyInt(0), PyInt(50), PyFloat(225, 2),
      PyStr(<<"2", "2", "5">>), PyStr(<<"2", ".", "5">>), PyStr(<<"b", "a", "d">>),
      PyStr(<<>>), PyNone }
Reps ==
    { PyInt(0), PyInt(1), PyInt(5), PyInt(10), PyFloat(11, 2), PyBigInt,
      PyStr(<<"5", "+">>), PyStr(<<"8", "-", "1", "2">>), PyStr(<<"5">>),
      PyStr(<<" ", "3">>), PyStr(<<"x">>), PyStr(<<>>), PyNone }

\* the calls whose exact result is halfway between two tenths
EstimateTies ==
    {<<float(w).num, float(w).den, int(r).num>> :
        <<w, r>> \in {c \in Weights \X Reps :
                         /\ float(c[1]).raises = "" /\ int(c[2]).raises = ""
                         /\ ~int(c[2]).big
                         /\ IsDecimalTie(float(c[1]), int(c[2]))}}

\* the call: the result returned, or the exception that leaves the function
CalculateEstimated1RM(weight, reps) ==
    /\ estimate.pc = "idle"
    /\ \E res \in {calculate_estimated_1rm(weight, reps)} :
           estimate' = [weight |-> weight, reps |-> reps,
                        pc |-> IF res.raises = "" THEN "returned" ELSE "raised",
                        result |-> res]
    /\ UNCHANGED <<lvars, workouts, fp_above, wendler, log, projection, requests, parsers, average>>

InitEstimate ==
    /\ script \in {<<l>> : l \in Lines}
    /\ num_cycles = 1
    /\ upcoming = <<>>
    /\ next_id = 1
    /\ session_num = 1
    /\ parsed = [status |-> "none", error |-> "", names |-> {}, workouts |-> <<>>,
                   session_num |-> 1]
    /\ response = NoResponse
    /\ pc = "request"
    /\ workouts = <<>>
    /\ fp_above \in SUBSET EstimateTies
    /\ estimate = NoEstimate
    /\ wendler = NoWendler
    /\ log = <<>>
    /\ projection = NoProjection
    /\ requests = <<>>
    /\ parsers = <<>>
    /\ average = NoAverage

NextEstimate ==
    \/ \E weight \in Weights : \E reps \in Reps : CalculateEstimated1RM(weight, reps)
    \/ generate_liftoscript_workouts

SpecEstimate == InitEstimate /\ [][NextEstimate]_vars

\* a number as the claims read it: the fraction a weight stands for
IsNumber(x) == x.type \in {"int", "float"} /\ ~x.big
AllDigits(cs) == cs # <<>> /\ \A k \in 1..Len(cs) : IsDigit(cs[k])
\* the digits a text begins with
RECURSIVE LeadingDigits(_)
LeadingDigits(cs) ==
    IF cs = <<>> \/ ~IsDigit(cs[1]) THEN <<>> ELSE <<cs[1]>> \o LeadingDigits(Tail(cs))
\* "5", "5+" or "8-12"
IsRepsText(cs) ==
    LET n == Len(LeadingDigits(cs))
        rest == SubSeq(cs, n + 1, Len(cs))
    IN  /\ n > 0
        /\ \/ rest = <<>>
           \/ rest = <<"+">>
           \/ rest # <<>> /\ rest[1] = "-" /\ AllDigits(Tail(rest))
\* n: reps itself, the base count of an AMRAP marker, the low end of a range
RepCount(reps) ==
    IF reps.type = "str" THEN DigitsValue(LeadingDigits(reps.chars)) ELSE reps.num
\* reps that are a whole number, an AMRAP marker or a range
HasRepCount(reps) ==
    IF reps.type = "str" THEN IsRepsText(reps.chars) ELSE reps.type = "int" /\ ~reps.big
\* val10 tenths is weight * (1 + 0.033 * n) rounded to one decimal place
IsRoundedEstimate(val10, weight, n) ==
    LET num == weight.num * (ONE_RM_DEN + ONE_RM_NUM * n)
        den == weight.den * ONE_RM_DEN
        off == 10 * num - val10 * den
    IN  2 * off <= den /\ -2 * off <= den

\* C18: for a numeric weight and reps that are a number, an AMRAP marker or a
\* rep range, the estimator returns weight * (1 + 0.033 * n) rounded to one
\* decimal place, n being the number, the base count or the low end of the
\* range; estimate(100, "5+") is 116.5.
C18_EstimateFormula ==
    (estimate.pc # "idle" /\ IsNumber(estimate.weight) /\ HasRepCount(estimate.reps)) =>
        /\ estimate.pc = "returned"
        /\ IsRoundedEstimate(estimate.result.val10, estimate.weight,
                             RepCount(estimate.reps))
        /\ (estimate.weight = PyInt(100) /\ estimate.reps = PyStr(<<"5", "+">>)) =>
               estimate.result.val10 = 1165

\* missing or not numeric: None, or a text without a digit
NotNumeric(x) ==
    \/ x.type = "NoneType"
    \/ x.type = "str" /\ \A k \in 1..Len(x.chars) : ~IsDigit(x.chars[k])
\* the exercises that use a % token without a 1RM header
MissingMaxima ==
    {Lns[i].name : i \in {j \in ExerciseLines :
        \E t \in TokensOf(j) : t.type = "%" /\ Headers("1RM", Lns[j].name) = {}}}

\* C19: the estimator never raises, and returns 0 when weight or reps is
\* missing or not numeric (estimate("bad", "x") is 0.0); the parser, given a
\* percentage without its maximum, fails instead.
C19_EstimateFallsBackParserFails ==
    /\ estimate.pc # "raised"
    /\ (estimate.pc = "returned"
           /\ (NotNumeric(estimate.weight) \/ NotNumeric(estimate.reps))) =>
           estimate.result.val10 = 0
    /\ (Answered /\ MissingMaxima # {}) => parsed.status = "error"


\* ================================================ overlapping parse requests
\* The handlers are plain functions, which FastAPI runs on a thread pool: two
\* liftoscript requests can run at the same time, their steps in any order.
\* A step is what a request does between two uses of parser.session_num from
\* outside _parse_single_cycle: the construction of the parser, the start of
\* parse, every cycle, the rest of the handler.
Handlers == 1..2

\* a parser shared by all requests
ParserOf_Shared(r) == 1
\* parser = LiftoscriptParser(): the parser of request r is its own
ParserOf(r) == r

\* LiftoscriptParser.__init__
NewParser == [session_num |-> 1]

Request(s, n) ==
    [script |-> s, num_cycles |-> n, pc |-> "request", cycle |-> 0, workouts |-> <<>>,
     status |-> "none", error |-> "", names |-> {}, response |-> NoResponse,
     overlapped |-> FALSE]

DefaultMaxes ==
    [squat |-> DEFAULT_SQUAT_MAX, bench |-> DEFAULT_BENCH_MAX,
     deadlift |-> DEFAULT_DEADLIFT_MAX]

\* another request is inside parse
Overlaps(r) == \E o \in Handlers \ {r} : requests[o].pc = "parsing"

\* parser = LiftoscriptParser()
Construct(r) ==
    /\ requests[r].pc = "request"
    /\ parsers' = [parsers EXCEPT ![ParserOf(r)] = NewParser]
    /\ requests' = [requests EXCEPT ![r].pc = "constructed"]
    /\ UNCHANGED <<lvars, workouts, fp_above, estimate, wendler, log, projection, average>>

\* parse up to the loop: _validate_exercises, workouts = [], self.session_num = 1
ParseBegin(r) ==
    /\ requests[r].pc = "constructed"
    /\ \E v \in {_validate_exercises(requests[r].script)} :
           IF v.unknown_exercises # {}
           THEN /\ requests' = [requests EXCEPT
                                   ![r].pc = "parsed", ![r].status = "error",
                                   ![r].error = "Unknown exercises (not in database)",
                                   ![r].names = v.unknown_exercises]
                /\ UNCHANGED parsers
           ELSE /\ requests' = [requests EXCEPT ![r].pc = "parsing", ![r].cycle = 0,
                                                ![r].workouts = <<>>]
                /\ parsers' = [parsers EXCEPT ![ParserOf(r)].session_num = 1]
    /\ UNCHANGED <<lvars, workouts, fp_above, estimate, wendler, log, projection, average>>

\* one turn of the loop over the cycles, or its end
ParseCycle(r) ==
    /\ requests[r].pc = "parsing"
    /\ IF requests[r].cycle >= requests[r].num_cycles
       THEN /\ requests' = [requests EXCEPT ![r].pc = "parsed", ![r].status = "ok"]
            /\ UNCHANGED parsers
       ELSE \E c \in {_parse_single_cycle(requests[r].script,
                                          parsers[ParserOf(r)].session_num, DefaultMaxes,
                                          _validate_exercises(requests[r].script)
                                              .exercise_categories,
                                          requests[r].cycle)} :
                /\ requests' = [requests EXCEPT
                                   ![r].cycle = @ + 1,
                                   ![r].workouts = @ \o c.workouts,
                                   ![r].overlapped = @ \/ Overlaps(r)]
                /\ parsers' = [parsers EXCEPT ![ParserOf(r)].session_num = c.session_num]
    /\ UNCHANGED <<lvars, workouts, fp_above, estimate, wendler, log, projection, average>>

\* what parse gave request r
ParsedOf(r) ==
    [status |-> requests[r].status, error |-> requests[r].error,
     names |-> requests[r].names, workouts |-> requests[r].workouts,
     session_num |-> parsers[ParserOf(r)].session_num]

\* the rest of the handler: the table replaced, the response
Respond(r) ==
    /\ requests[r].pc = "parsed"
    /\ upcoming' = GenerateStore(upcoming, next_id, ParsedOf(r))
    /\ next_id' = next_id + Len(requests[r].workouts)
    /\ requests' = [requests EXCEPT ![r].pc = "done",
                                    ![r].response = GenerateResponse(upcoming, ParsedOf(r))]
    /\ UNCHANGED <<script, num_cycles, session_num, parsed, response, pc>>
    /\ UNCHANGED <<workouts, fp_above, estimate, wendler, log, projection, parsers, average>>

\* the scripts of the two requests: one session, two sessions, an exercise
\* the database does not have, no exercise
ConcurrentScripts ==
    { <<Exercise(SQUAT, <<<<Bare(2, 5)>>>>)>>,
      <<Exercise(BENCH, <<<<Weighted(1, 5, FALSE, 770, "%")>>>>), Blank,
        Exercise(DEADLIFT, <<<<Weighted(1, 5, FALSE, 600, "kg")>>>>)>>,
      <<Exercise(UNKNOWN, <<<<Weighted(3, 10, FALSE, 500, "lb")>>>>)>>,
      <<Text>> }

InitConcurrent ==
    /\ script = <<>>
    /\ num_cycles = 1
    /\ upcoming = <<>>
    /\ next_id = 1
    /\ session_num = 1
    /\ parsed = [status |-> "none", error |-> "", names |-> {}, workouts |-> <<>>,
                   session_num |-> 1]
    /\ response = NoResponse
    /\ pc = "idle"
    /\ workouts = <<>>
    /\ fp_above = {}
    /\ estimate = NoEstimate
    /\ wendler = NoWendler
    /\ log = <<>>
    /\ projection = NoProjection
    /\ requests \in [Handlers -> {Request(s, n) : s \in ConcurrentScripts,
                                                    n \in 1..MaxCycles}]
    /\ parsers = [r \in Handlers |-> NewParser]
    /\ average = NoAverage

NextConcurrent ==
    \E r \in Handlers :
        \/ Construct(r)
        \/ ParseBegin(r)
        \/ ParseCycle(r)
        \/ Respond(r)

SpecConcurrent == InitConcurrent /\ [][NextConcurrent]_vars

\* what request r gets when it runs alone
Alone(r) ==
    parse(requests[r].script, DEFAULT_SQUAT_MAX, DEFAULT_BENCH_MAX, DEFAULT_DEADLIFT_MAX,
          requests[r].num_cycles, 1)

\* C20: two liftoscript requests whose parse invocations overlap in time each
\* return exactly what they return when run alone: the same entries with the
\* same session numbers, or the same error.
C20_OverlappingParsesAreIsolated ==
    \A r \in Handlers :
        requests[r].pc \in {"parsed", "done"} =>
            /\ requests[r].status = Alone(r).status
            /\ requests[r].error = Alone(r).error
            /\ requests[r].names = Alone(r).names
            /\ requests[r].workouts = Alone(r).workouts

C20_Witness ==
    \A r \in Handlers :
        /\ requests[r].pc = "done"
        /\ requests[r].overlapped
        /\ requests[r].num_cycles >= 2
        /\ \E k \in 1..Len(requests[r].workouts) : requests[r].workouts[k].session >= 2


\* ========================================================= session transfer
\* ------------------------------------------------ the repositories it uses
\* the primary key SQLite gives a new row of a table: one past the highest
NewId(rows) ==
    IF rows = <<>> THEN 1 ELSE SetMax({rows[k].doc_id : k \in 1..Len(rows)}) + 1

\* UpcomingWorkoutRepository._serialize: reps that spell a number come back
\* as that number
SerializedReps(row) == IF IsSome(row.reps) THEN Some(Get(row.reps).digits) ELSE None

\* get_by_session: the rows of the session ORDER BY id
get_by_session(store, session_id) == SelectSeq(store, LAMBDA w : w.session = session_id)

\* delete_session: the table without the session, and how many rows went
delete_session(store, session_id) ==
    [store |-> SelectSeq(store, LAMBDA w : w.session # session_id),
     count |-> Len(get_by_session(store, session_id))]

\* WorkoutCreate
WorkoutCreate(date, exercise, category, weight, reps, comment, order) ==
    [date |-> date, exercise |-> exercise, category |-> category, weight |-> weight,
     weight_unit |-> "lbs", reps |-> reps, comment |-> comment, order |-> order]

\* count + 1, count the number of workouts of the date
DefaultOrder(rows, date) ==
    Cardinality({k \in 1..Len(rows) : rows[k].date = date}) + 1

\* WorkoutRepository.create
create(rows, workout) ==
    Append(rows,
           [doc_id |-> NewId(rows), date |-> workout.date, exercise |-> workout.exercise,
            category |-> workout.category, weight |-> workout.weight,
            weight_unit |-> workout.weight_unit,
            reps |-> IF IsSome(workout.reps) THEN Some(StrOfInt(Get(workout.reps)))
                     ELSE None,
            comment |-> workout.comment,
            order |-> IF IsSome(workout.order) THEN Get(workout.order)
                      ELSE DefaultOrder(rows, workout.date)])

\* ----------------------------------------------------------- the handler
\* the workouts table after the session's entries have been created in it
RECURSIVE TransferFrom(_, _, _, _)
TransferFrom(rows, session_workouts, date, i) ==
    IF i > Len(session_workouts) THEN rows
    ELSE LET upcoming_workout == session_workouts[i]
         IN  TransferFrom(create(rows,
                                 WorkoutCreate(date, upcoming_workout.exercise,
                                               upcoming_workout.category,
                                               upcoming_workout.weight,
                                               SerializedReps(upcoming_workout),
                                               upcoming_workout.comment, Some(i))),
                          session_workouts, date, i + 1)

\* the handler that deletes the session and creates nothing
TransferredRows_Dropped(rows, session_workouts, date) == rows
TransferredRows(rows, session_workouts, date) ==
    TransferFrom(rows, session_workouts, date, 1)

TransferResponse(status, session, date, count) ==
    [call |-> "transfer_session", status |-> status, session |-> session, date |-> date,
     count |-> count]

transfer_session(session, date) ==
    /\ \E session_workouts \in {get_by_session(upcoming, session)} :
           IF session_workouts = <<>>
           THEN /\ log' = Append(log, TransferResponse(404, session, date, 0))
                /\ UNCHANGED <<workouts, upcoming>>
           ELSE /\ workouts' = TransferredRows(workouts, session_workouts, date)
                /\ upcoming' = delete_session(upcoming, session).store
                /\ log' = Append(log, TransferResponse(200, session, date,
                                                       delete_session(upcoming, session).count))
    /\ UNCHANGED <<script, num_cycles, next_id, session_num, parsed, response, pc>>
    /\ UNCHANGED <<fp_above, estimate, wendler, projection, requests, parsers, average>>

\* what is logged when a transfer arrives: nothing, or two sets of one day
TransferHistories ==
    { <<>>,
      <<Logged(1, isoformat(Date(2024, 2, 2)), SQUAT, Some(100), Some(StrOfInt(5))),
        [Logged(2, isoformat(Date(2024, 2, 2)), BENCH, Some(60), Some(StrOfInt(5)))
            EXCEPT !.order = 2]>> }
TransferSessions == 1..3
TransferDates == {isoformat(Date(2024, 2, 2)), isoformat(Date(2024, 2, 4))}

InitTransfer ==
    /\ script = <<>>
    /\ num_cycles = 1
    /\ upcoming \in Tables(PlannedSets, MaxPlanned)
    /\ next_id = Len(upcoming) + 1
    /\ session_num = 1
    /\ parsed = [status |-> "none", error |-> "", names |-> {}, workouts |-> <<>>,
                   session_num |-> 1]
    /\ response = NoResponse
    /\ pc = "idle"
    /\ workouts \in TransferHistories
    /\ fp_above = {}
    /\ estimate = NoEstimate
    /\ wendler = NoWendler
    /\ log = <<>>
    /\ projection = NoProjection
    /\ requests = <<>>
    /\ parsers = <<>>
    /\ average = NoAverage

NextTransfer ==
    /\ Len(log) < MaxCalls
    /\ \E session \in TransferSessions : \E date \in TransferDates :
           transfer_session(session, date)

SpecTransfer == InitTransfer /\ [][NextTransfer]_vars

\* the last response
Last == log[Len(log)]
\* the rows of a table that are not among the first n
After(rows, n) == SubSeq(rows, n + 1, Len(rows))
SessionRows(s) == get_by_session(upcoming, s)

MainSetsOf(lift, cycle_idx, week) ==
    SelectSeq(wendler.workouts,
              LAMBDA e : /\ e.exercise = MAIN_LIFTS[lift].exercise
                         /\ e.cycle = cycle_idx /\ e.week = week
                         /\ IsSome(e.comment)
                         /\ Get(e.comment)[1].text = WeekLabel(week))
\* the multiple of 5 nearest to pct percent of the cycle's 1RM
NearestFive(lift, cycle_idx, week, k) ==
    round_to_nearest_5(CycleMax(lift, cycle_idx) * WEEK_PERCENTAGES[week][k].pct, 1000)
Cycles == 0..(wendler.num_cycles - 1)
Weeks == 1..Len(WEEK_PERCENTAGES)
\* the weights the parser gives the exercise lines, each parsed alone
ParserWeights ==
    UNION {{Get(w.weight) : w \in {ws[k] : k \in {i \in 1..Len(ws) : IsSome(ws[i].weight)}}} :
           ws \in {parse(<<l>>, DEFAULT_SQUAT_MAX, DEFAULT_BENCH_MAX, DEFAULT_DEADLIFT_MAX,
                         1, 1).workouts : l \in Lines}}

PassedMaxes == <<wendler.squat_max, wendler.bench_max, wendler.deadlift_max>>
\* the weights of the three sets of a week for a 1RM in tenths
WeekWeights(max_weight10, week) ==
    [k \in 1..Len(WEEK_PERCENTAGES[week]) |-> Some(calculate_weights(max_weight10, week)[k].weight)]
WeightsOf(sets) == [k \in 1..Len(sets) |-> sets[k].weight]

\* C23: in cycle c (from 0) the weights of all four weeks are computed from
\* the squat 1RM + 10c, the bench 1RM + 5c and the deadlift 1RM + 10c, the
\* 1RMs being the values the caller passed; within a cycle the 1RMs are the
\* same in every week.
C23_CycleMaxFromPassedValues ==
    Generated =>
        \A lift \in 1..Len(MAIN_LIFTS) :
            IsSome(PassedMaxes[lift]) =>
                \A cycle_idx \in Cycles : \A week \in Weeks :
                    WeightsOf(MainSetsOf(lift, cycle_idx, week))
                        = WeekWeights(10 * Get(PassedMaxes[lift]) + cycle_idx * Steps[lift], week)


\* ============================================ comma-separated set specs
\* the exercise lines of the requests: several set specs on a line, with and
\* without a weight of their own, with and without a weight after a slash
CommaLines ==
    { Blank,
      Exercise(DEADLIFT, <<<<Weighted(1, 5, FALSE, 650, "%"),    \* Deadlift / 1x5 65%, 1x3 80%, 1x1+ 95%
                             Weighted(1, 3, FALSE, 800, "%"),
                             Weighted(1, 1, TRUE, 950, "%")>>>>),
      Exercise(SQUAT, <<<<Weighted(2, 5, FALSE, 1350, "lb"),     \* Barbell Squat / 2x5 135lb, 3x3
                          Bare(3, 3)>>>>),
      Exercise(SQUAT, <<<<Bare(2, 5),                            \* Barbell Squat / 2x5, 1x3 80% / 100lb
                          Weighted(1, 3, FALSE, 800, "%")>>,
                        <<Part(None, Some(WeightTok(1000, "lb", FALSE)), None)>> >>),
      Exercise(BENCH, <<<<Bare(1, 8),                            \* Flat Barbell Bench Press / 1x8, 2x6 60kg, 1x4
                          Weighted(2, 6, FALSE, 600, "kg"),
                          Bare(1, 4)>>>>),
      Exercise(BENCH, <<<<Weighted(1, 5, FALSE, 700, "%")>>>>) } \* Flat Barbell Bench Press / 1x5 70%

InitSetSpecs ==
    /\ script \in UNION {[1..n -> CommaLines] : n \in 1..MaxLines}
    /\ num_cycles \in 1..MaxCycles
    /\ upcoming = <<>>
    /\ next_id = 1
    /\ session_num = 1
    /\ parsed = [status |-> "none", error |-> "", names |-> {}, workouts |-> <<>>,
                   session_num |-> 1]
    /\ response = NoResponse
    /\ pc = "request"
    /\ ServicesIdle

NextSetSpecs == generate_liftoscript_workouts

SpecSetSpecs == InitSetSpecs /\ [][NextSetSpecs]_vars

\* the weight the parts after the set spec give the line
GlobalWeightOf(i) ==
    GlobalModifiers(GlobalModifiersOf(Lns[i].tail), 1, Lns[i].name, DefaultMaxes,
                    [rest |-> None, weight |-> None]).weight
\* the weight of a set spec: its own token resolved, or the line's
SpecWeightOf(i, part) ==
    IF IsSome(part.weight)
    THEN Some(ResolveWeight(Get(part.weight), Lns[i].name, DefaultMaxes))
    ELSE GlobalWeightOf(i)
\* reps and weight of the sets of the comma parts j.. of line i, left to right
RECURSIVE ExpectedSets(_, _)
ExpectedSets(i, j) ==
    LET set_spec == SetSpecOf(Lns[i].tail)
    IN  IF j > Len(set_spec) THEN <<>>
        ELSE (IF IsSome(set_spec[j].set)
              THEN [k \in 1..Get(set_spec[j].set).num_sets |->
                       [reps |-> Some(Get(set_spec[j].set).reps),
                        weight |-> SpecWeightOf(i, set_spec[j])]]
              ELSE <<>>)
             \o ExpectedSets(i, j + 1)
RepsAndWeights(entries) ==
    [k \in 1..Len(entries) |-> [reps |-> entries[k].reps, weight |-> entries[k].weight]]
ThreeSpecs ==
    Exercise(DEADLIFT, <<<<Weighted(1, 5, FALSE, 650, "%"), Weighted(1, 3, FALSE, 800, "%"),
                           Weighted(1, 1, TRUE, 950, "%")>>>>)

RankOf(session) == Cardinality({s \in StoredSessions(upcoming) : s < session})
\* the last date of the historical series of an answer
LastHistoricalDate(r) == r.data.historical[Len(r.data.historical)].date
\* the date k sessions after a start
ProjectedDate(start, k) == isoformat(timedelta(start, 2 * k))

PlannedSetsOf(exercise, session) ==
    {w \in Points(upcoming) : w.exercise = exercise /\ w.session = session}
\* those of them that can be a point: weight and reps set and not zero, the
\* estimate above zero
Estimable(entries) == {w \in entries : HasWeightAndReps(w) /\ Estimate(w) > 0}
\* the points of an answer for a session
PointsOf(r, session) == {p \in Points(r.data.upcoming) : p.session = session}
\* the date the session-to-date map of an answer holds for a session
MapDate(r, session) ==
    ProjectedDate(IF r.data.historical # <<>> /\ IsSome(fromisoformat(LastHistoricalDate(r)))
                  THEN timedelta(Get(fromisoformat(LastHistoricalDate(r))), 2)
                  ELSE r.today,
                  RankOf(session))
\* p is the best of the entries, on the date of its session
BestOf(r, p, entries) ==
    /\ \E w \in entries : p.weight = w.weight /\ p.reps = w.reps /\ p.comment = w.comment
                          /\ p.estimated_1rm = Estimate(w)
    /\ \A w \in entries : Estimate(w) <= p.estimated_1rm
    /\ p.projected_date = MapDate(r, p.session)
\* the answers that include the upcoming series
WithUpcoming == {r \in Results : r.include_upcoming}

\* C26 as stated: every stored session with at least one entry of the target
\* exercise has exactly one point in the upcoming series, its entry with the
\* highest estimated 1RM on the session's projected date; the other sessions
\* have none.
C26_OnePointPerSessionWithEntry ==
    \A r \in WithUpcoming :
        /\ \A p \in Points(r.data.upcoming) : p.session \in StoredSessions(upcoming)
        /\ \A session \in StoredSessions(upcoming) :
               IF PlannedSetsOf(r.data.exercise, session) = {}
               THEN PointsOf(r, session) = {}
               ELSE /\ Cardinality(PointsOf(r, session)) = 1
                    /\ \A p \in PointsOf(r, session) :
                           BestOf(r, p, PlannedSetsOf(r.data.exercise, session))

\* C26, amended: the sessions that have a point are those with an entry of the
\* target exercise that has weight and reps (set, not zero) and an estimate
\* above zero; the point is the best of these entries.
C26_OnePointPerSessionWithEstimate ==
    \A r \in WithUpcoming :
        /\ \A p \in Points(r.data.upcoming) : p.session \in StoredSessions(upcoming)
        /\ \A session \in StoredSessions(upcoming) :
               IF Estimable(PlannedSetsOf(r.data.exercise, session)) = {}
               THEN PointsOf(r, session) = {}
               ELSE /\ Cardinality(PointsOf(r, session)) = 1
                    /\ \A p \in PointsOf(r, session) :
                           BestOf(r, p, Estimable(PlannedSetsOf(r.data.exercise, session)))

C26_Witness ==
    \E r, q \in WithUpcoming : \E session \in StoredSessions(upcoming) :
        /\ Cardinality(PlannedSetsOf(r.data.exercise, session)) = 2
        /\ \E p \in PointsOf(r, session) : \E w \in PlannedSetsOf(r.data.exercise, session) :
               Estimate(w) < p.estimated_1rm
        /\ PlannedSetsOf(q.data.exercise, session) = {}
        /\ q.data.upcoming = <<>>


MaxValues == 4

\* the mean from the first value on, not over the last window values
WindowValues_FromStart(values, i, window) ==
    SelectSeq(SubSeq(values, 1, i), LAMBDA v : IsSome(v))

\* window_values for position i (counted from 1):
\* [v for v in values[max(0, i - window + 1):i + 1] if v is not None]
WindowValues(values, i, window) ==
    SelectSeq(SubSeq(values, IF i - window + 1 > 1 THEN i - window + 1 ELSE 1, i),
              LAMBDA v : IsSome(v))

\* sum(window_values)
RECURSIVE SumOf(_)
SumOf(window_values) ==
    IF window_values = <<>> THEN 0
    ELSE Get(window_values[1]) + SumOf(Tail(window_values))

calculate_moving_average(values, window) ==
    [i \in 1..Len(values) |->
        IF ~IsSome(values[i]) THEN None
        ELSE LET window_values == WindowValues(values, i, window)
             IN  IF window_values # <<>>
                 THEN Some(PyRound(SumOf(window_values), Len(window_values)))
                 ELSE None]

\* the call, start to finish
CalculateMovingAverage ==
    /\ average.pc = "idle"
    /\ average' = [average EXCEPT !.pc = "returned",
                                  !.result = calculate_moving_average(average.values,
                                                                      average.window)]
    /\ UNCHANGED <<lvars, workouts, fp_above, estimate, wendler, log, projection,
                   requests, parsers>>

\* the values and windows a caller can pass
AverageValues == {None, Some(100), Some(300), Some(500), Some(50)}
AverageWindows == {0, 1, 2, 3, 7}

InitAverage ==
    /\ script = <<>>
    /\ num_cycles = 1
    /\ upcoming = <<>>
    /\ next_id = 1
    /\ session_num = 1
    /\ parsed = [status |-> "none", error |-> "", names |-> {}, workouts |-> <<>>,
                   session_num |-> 1]
    /\ response = NoResponse
    /\ pc = "idle"
    /\ workouts = <<>>
    /\ fp_above = {}
    /\ estimate = NoEstimate
    /\ wendler = NoWendler
    /\ log = <<>>
    /\ projection = NoProjection
    /\ requests = <<>>
    /\ parsers = <<>>
    /\ average \in {[values |-> values, window |-> window, pc |-> "idle", result |-> <<>>] :
                       values \in UNION {[1..n -> AverageValues] : n \in 0..MaxValues},
                       window \in AverageWindows}

NextAverage == CalculateMovingAverage

SpecAverage == InitAverage /\ [][NextAverage]_vars

\* the positions of the window of position i that hold a value
InWindow(i) ==
    {j \in 1..i : j >= i - average.window + 1 /\ IsSome(average.values[j])}
RECURSIVE Total(_)
Total(J) ==
    IF J = {} THEN 0
    ELSE LET j == CHOOSE x \in J : TRUE IN Get(average.values[j]) + Total(J \ {j})
\* r is the quotient num / den rounded to a whole number, a tie to the even one
RoundedQuotient(r, num, den) ==
    LET off == IF r * den >= num THEN r * den - num ELSE num - r * den
    IN  /\ 2 * off <= den
        /\ 2 * off = den => r % 2 = 0
TestValues == <<Some(100), None, Some(300), Some(500)>>

\* C27 as stated: the result has the length of values, is None at i exactly
\* when values[i] is None, and otherwise is the mean of the values that are
\* not None among values[max(0, i-w+1) .. i]; [1, None, 3, 5] with w = 2 gives
\* [1, None, 3, 4].
C27_MeanOfWindow ==
    average.pc = "returned" =>
        /\ Len(average.result) = Len(average.values)
        /\ \A i \in 1..Len(average.values) :
               /\ ~IsSome(average.result[i]) <=> ~IsSome(average.values[i])
               /\ IsSome(average.result[i]) =>
                      Get(average.result[i]) * Cardinality(InWindow(i)) = Total(InWindow(i))
        /\ (average.values = TestValues /\ average.window = 2) =>
               average.result = <<Some(100), None, Some(300), Some(400)>>

\* C27, amended: for w >= 1 the result is None at i exactly when values[i] is
\* None and otherwise the mean of the window's values rounded to two decimals
\* (a tie to the even hundredth); for w <= 0 every position is None.
C27_RoundedMeanOfWindow ==
    average.pc = "returned" =>
        /\ Len(average.result) = Len(average.values)
        /\ \A i \in 1..Len(average.values) :
               IF average.window >= 1
               THEN /\ ~IsSome(average.result[i]) <=> ~IsSome(average.values[i])
                    /\ IsSome(average.result[i]) =>
                           RoundedQuotient(Get(average.result[i]), Total(InWindow(i)),
                                           Cardinality(InWindow(i)))
               ELSE ~IsSome(average.result[i])
        /\ (average.values = TestValues /\ average.window = 2) =>
               average.result = <<Some(100), None, Some(300), Some(400)>>

C27_Witness ==
    /\ average.pc = "returned"
    /\ average.values = <<Some(100), None, Some(100), Some(300)>>
    /\ average.window = 7
    /\ average.result = <<Some(100), None, Some(100), Some(167)>>


\* ========================================= generate_and_save calls at once
\* Two callers inside generate_and_save at the same time. Each call reads the
\* table in generate_progression (get_all, in a database session of its own)
\* and writes in create_bulk (another database session); nothing holds the
\* table between the two.

GenerationCall(n, maxima) ==
    [num_cycles |-> n, squat_max |-> maxima[1], bench_max |-> maxima[2],
     deadlift_max |-> maxima[3], pc |-> "called", workouts |-> <<>>,
     result |-> NoGeneration]

\* workouts = self.generate_progression(...): the maxes and the highest
\* session are read, the entries built
GenerateProgression(r) ==
    /\ requests[r].pc = "called"
    /\ \E seen \in MainLiftHistories :
           requests' = [requests EXCEPT
                           ![r].pc = "generated",
                           ![r].workouts =
                               generate_progression(requests[r].num_cycles,
                                                    requests[r].squat_max,
                                                    requests[r].bench_max,
                                                    requests[r].deadlift_max,
                                                    seen, upcoming)]
    /\ UNCHANGED <<lvars, workouts, fp_above, estimate, wendler, log, projection,
                   parsers, average>>

\* the rest of generate_and_save: nothing to save, or create_bulk and the summary
SaveGenerated(r) ==
    /\ requests[r].pc = "generated"
    /\ upcoming' = IF requests[r].workouts = <<>> THEN upcoming
                   ELSE create_bulk(upcoming, next_id, requests[r].workouts)
    /\ next_id' = next_id + Len(requests[r].workouts)
    /\ requests' = [requests EXCEPT
                       ![r].pc = "returned",
                       ![r].result = GenerationSummary(requests[r].workouts,
                                                       requests[r].workouts,
                                                       requests[r].num_cycles)]
    /\ UNCHANGED <<script, num_cycles, session_num, parsed, response, pc>>
    /\ UNCHANGED <<workouts, fp_above, estimate, wendler, log, projection, parsers, average>>

\* the 1RMs the two calls pass
GenerationMaxima == {<<Some(200), Some(150), Some(250)>>, <<None, None, None>>}

InitGenerations ==
    /\ script = <<>>
    /\ num_cycles = 1
    /\ upcoming \in InitialStores
    /\ next_id = Len(upcoming) + 1
    /\ session_num = 1
    /\ parsed = [status |-> "none", error |-> "", names |-> {}, workouts |-> <<>>,
                   session_num |-> 1]
    /\ response = NoResponse
    /\ pc = "idle"
    /\ workouts = <<>>
    /\ fp_above = {}
    /\ estimate = NoEstimate
    /\ wendler = NoWendler
    /\ log = <<>>
    /\ projection = NoProjection
    /\ requests \in [Handlers -> {GenerationCall(n, maxima) :
                                     n \in 0..MaxCycles, maxima \in GenerationMaxima}]
    /\ parsers = <<>>
    /\ average = NoAverage

NextGenerations ==
    \E r \in Handlers :
        \/ GenerateProgression(r)
        \/ SaveGenerated(r)

SpecGenerations == InitGenerations /\ [][NextGenerations]_vars

\* the session numbers of the entries a call stored
SessionsStoredBy(r) ==
    IF requests[r].pc = "returned"
    THEN {requests[r].workouts[k].session : k \in 1..Len(requests[r].workouts)}
    ELSE {}

\* C29: two generate_and_save calls that overlap never store entries under
\* the same session number: however their reads of the highest stored session
\* and their bulk writes interleave, the session numbers of one call's entries
\* and those of the other's are disjoint.
C29_DisjointSessionRanges ==
    \A r, o \in Handlers : r # o => SessionsStoredBy(r) \cap SessionsStoredBy(o) = {}


\* ===================================================== the workouts of a day
\* Calls of WorkoutRepository: create without an order, delete, move_to_date.

\* WorkoutRepository.delete: the table without the row, and whether it was there
delete(rows, doc_id) ==
    [rows |-> SelectSeq(rows, LAMBDA w : w.doc_id # doc_id),
     found |-> \E k \in 1..Len(rows) : rows[k].doc_id = doc_id]

\* the rows of source_date ORDER BY order: where they stand in the table, in
\* every sequence the query can return them (equal orders either way round)
SourceWorkouts(rows, source_date) ==
    LET I == {i \in 1..Len(rows) : rows[i].date = source_date}
    IN  {o \in [1..Cardinality(I) -> I] :
            /\ \A a, b \in 1..Cardinality(I) : a # b => o[a] # o[b]
            /\ \A a, b \in 1..Cardinality(I) : a < b => rows[o[a]].order <= rows[o[b]].order}

\* WorkoutRepository.move_to_date, source_workouts being what the query returned
move_to_date(rows, source_workouts, target_date) ==
    LET starting_order == Cardinality({k \in 1..Len(rows) : rows[k].date = target_date}) + 1
    IN  [rows |-> [k \in 1..Len(rows) |->
                      IF \E i \in 1..Len(source_workouts) : source_workouts[i] = k
                      THEN [rows[k] EXCEPT
                               !.date = target_date,
                               !.order = starting_order - 1
                                         + CHOOSE i \in 1..Len(source_workouts) :
                                               source_workouts[i] = k]
                      ELSE rows[k]],
         count |-> Len(source_workouts)]

RepositoryCall(call, doc_id, count) == [call |-> call, doc_id |-> doc_id, count |-> count]

\* create(WorkoutCreate(date=..., order=None))
CreateWorkout(date, exercise) ==
    /\ workouts' = create(workouts, WorkoutCreate(date, exercise, "Other", Some(100),
                                                  Some(5), None, None))
    /\ log' = Append(log, RepositoryCall("create", NewId(workouts), 1))
    /\ UNCHANGED <<lvars, fp_above, estimate, wendler, projection, requests, parsers, average>>

DeleteWorkout(doc_id) ==
    /\ workouts' = delete(workouts, doc_id).rows
    /\ log' = Append(log, RepositoryCall("delete", doc_id,
                                         IF delete(workouts, doc_id).found THEN 1 ELSE 0))
    /\ UNCHANGED <<lvars, fp_above, estimate, wendler, projection, requests, parsers, average>>

MoveToDate(source_date, target_date) ==
    /\ \E source_workouts \in SourceWorkouts(workouts, source_date) :
       \E res \in {move_to_date(workouts, source_workouts, target_date)} :
           /\ workouts' = res.rows
           /\ log' = Append(log, RepositoryCall("move_to_date", 0, res.count))
    /\ UNCHANGED <<lvars, fp_above, estimate, wendler, projection, requests, parsers, average>>

\* the ids a delete is called with: those of the table and one after them
WorkoutIds == {workouts[k].doc_id : k \in 1..Len(workouts)} \cup {NewId(workouts)}

InitWorkouts ==
    /\ script = <<>>
    /\ num_cycles = 1
    /\ upcoming = <<>>
    /\ next_id = 1
    /\ session_num = 1
    /\ parsed = [status |-> "none", error |-> "", names |-> {}, workouts |-> <<>>,
                   session_num |-> 1]
    /\ response = NoResponse
    /\ pc = "idle"
    /\ workouts \in TransferHistories
    /\ fp_above = {}
    /\ estimate = NoEstimate
    /\ wendler = NoWendler
    /\ log = <<>>
    /\ projection = NoProjection
    /\ requests = <<>>
    /\ parsers = <<>>
    /\ average = NoAverage

NextWorkouts ==
    /\ Len(log) < MaxCalls
    /\ \/ \E date \in TransferDates : \E exercise \in {SQUAT, BENCH} :
              CreateWorkout(date, exercise)
       \/ \E doc_id \in WorkoutIds : DeleteWorkout(doc_id)
       \/ \E source_date, target_date \in TransferDates :
              MoveToDate(source_date, target_date)

SpecWorkouts == InitWorkouts /\ [][NextWorkouts]_vars

\* C30: after any sequence of create (without an order), delete and
\* move_to_date calls no two workouts of one date have the same order.
C30_OrdersDistinctPerDate ==
    \A i, j \in 1..Len(workouts) :
        (i # j /\ workouts[i].date = workouts[j].date) =>
            workouts[i].order # workouts[j].order


====
